---- MODULE Spec2Model ----
(***************************************************************************)
(* Semiconductor Bloch equation solver (runscripts_cep/SBE.py): the        *)
(* right-hand sides flength / fvelocity, the initial condition, the path   *)
(* set-up and the propagation loop of main.                                *)
(*                                                                         *)
(* Numbers.  Python floats and complex numbers are modelled exactly, as    *)
(* complex rationals [re, im, den] in lowest terms with den > 0.  Rounding *)
(* is modelled where it decides a branch (a k-point on an edge of the      *)
(* hexagon) or a value (overflow and underflow of np.exp); np.exp and      *)
(* np.sin are evaluated only where their values are rational.  den = 0     *)
(* marks a slot of an np.empty array that was never written, and inf.      *)
(***************************************************************************)
EXTENDS Integers, Sequences, FiniteSets, TLC

VARIABLES
    gauge,              \* params.gauge
    dipole_off,         \* params.dipole_off
    E_dir,              \* field direction <<ex, ey>>
    E0,                 \* field amplitude
    phase,              \* carrier-envelope phase, in quarter turns (pi/2)
    gamma1,             \* 1/T1
    gamma2,             \* 1/T2
    e_fermi,            \* Fermi energy
    temperature,        \* temperature
    BZ_type,            \* params.BZ_type
    save_file,          \* params.save_file
    save_full,          \* params.save_full
    Nk1,                \* k-points per path (Nk_in_path for '2line')
    Nk2,                \* number of paths (2 for '2line')
    align,              \* params.align for 'full', "None" for '2line'
    length_path_in_BZ,  \* params.length_path_in_BZ
    Nf,                 \* int(abs(2*t0)/dt): requested integration steps
    NtOut,              \* params.Nt: requested number of output samples
    pc,                 \* position of main / of the evaluation harness
    fault,              \* "none" or the error that ended the run
    dk,                 \* k-spacing of the finite-difference term
    paths,              \* the paths of the mesh
    Nk2_idx,            \* index of the path being propagated
    kpath,              \* f_params: path
    ecv_in_path,        \* f_params: transition energies
    dipole_in_path,     \* f_params: off-diagonal dipole along E_dir
    A_in_path,          \* f_params: diagonal dipole difference along E_dir
    y0,                 \* f_params: initial state (relaxation target)
    solver_y,           \* solver.y
    solver_t,           \* solver.t
    solver_ok,          \* solver.successful()
    ti,                 \* integration step index
    t_idx,              \* output sample index
    t_constructed,      \* time axis already built
    t,                  \* time axis
    solution,           \* solution[k, path, sample, component]
    A_field,            \* recorded vector potential
    x,                  \* the last value returned by the right-hand side
    reads,              \* indices of y the last evaluation read
    band_pole,          \* the k-point where the band model is not finite, or <<>>
    I_exact_E_dir,      \* emission along the field
    I_exact_ortho,      \* emission orthogonal to the field
    files               \* names of the files written

vars == <<gauge, dipole_off, E_dir, E0, phase, gamma1, gamma2, e_fermi,
          temperature, BZ_type, Nk1, Nk2, align, length_path_in_BZ, Nf, NtOut, pc,
          fault,
          dk, paths, Nk2_idx, kpath, ecv_in_path, dipole_in_path, A_in_path,
          y0, solver_y, solver_t, solver_ok, ti, t_idx, t_constructed, t,
          solution, A_field, x, reads, save_file, save_full, band_pole,
          I_exact_E_dir, I_exact_ortho, files>>

(***************************************************************************)
(* Bounds of the model.                                                    *)
(***************************************************************************)
MaxNk == 3
MaxNf == 2
MaxNtOut == 2

(***************************************************************************)
(* Exact complex arithmetic.                                               *)
(***************************************************************************)
Abs(n) == IF n < 0 THEN -n ELSE n

RECURSIVE GCD(_, _)
GCD(a, b) == IF b = 0 THEN a ELSE GCD(b, a % b)

Cx(re, im, den) ==
    LET g == GCD(GCD(Abs(re), Abs(im)), Abs(den))
    IN  IF den < 0
        THEN [re |-> (-re) \div g, im |-> (-im) \div g, den |-> (-den) \div g]
        ELSE [re |-> re \div g, im |-> im \div g, den |-> den \div g]

R(n) == [re |-> n, im |-> 0, den |-> 1]

Q(n, d) == Cx(n, 0, d)

J1 == [re |-> 0, im |-> 1, den |-> 1]

Unset == [re |-> 0, im |-> 0, den |-> 0]

CAdd(a, b) == Cx(a.re * b.den + b.re * a.den, a.im * b.den + b.im * a.den, a.den * b.den)

CNeg(a) == [re |-> -a.re, im |-> -a.im, den |-> a.den]

CSub(a, b) == CAdd(a, CNeg(b))

CMul(a, b) == Cx(a.re * b.re - a.im * b.im, a.re * b.im + a.im * b.re, a.den * b.den)

\* a / b for a real b # 0
CDivR(a, b) == Cx(a.re * b.den, a.im * b.den, a.den * b.re)

CConj(a) == [re |-> a.re, im |-> -a.im, den |-> a.den]

CImag(a) == Cx(a.im, 0, a.den)

CReal(a) == Cx(a.re, 0, a.den)

\* a < b for reals
RLess(a, b) == a.re * b.den < b.re * a.den

\* float64 inf
np_inf == [re |-> 0, im |-> 1, den |-> 0]

\* a real that is no rational number: the model does not evaluate it
Irrational == CHOOSE v \in {} : TRUE

\* np.exp on a real argument, where its float64 value is a rational number:
\* exp(0) = 1, inf from 710 on (overflow), 0.0 from -746 down (underflow).
\* The other values are irrational; the runs of the model ask for none.
np_exp(xx) ==
    IF xx.re = 0 THEN R(1)
    ELSE IF ~RLess(xx, R(710)) THEN np_inf
    ELSE IF ~RLess(R(-746), xx) THEN R(0)
    ELSE Irrational

\* np.sin at q quarter turns, q*pi/2: 0, 1, 0, -1 for an integer q; the
\* other values the model does not evaluate
np_sin_quarters(q) ==
    IF q.den # 1 THEN Irrational
    ELSE IF q.re % 4 = 0 THEN R(0)
    ELSE IF q.re % 4 = 1 THEN R(1)
    ELSE IF q.re % 4 = 2 THEN R(0)
    ELSE R(-1)

\* np.linspace(a, b, num)[j]
linspace(a, b, num, j) ==
    IF num = 1 THEN a
    ELSE CAdd(a, CDivR(CMul(R(j), CSub(b, a)), R(num - 1)))

\* kpath.shape[0], e_c.size: the length of a 0-based array
size(arr) == Cardinality(DOMAIN arr)

(***************************************************************************)
(* The band model (sys.efjit, dipole.Axfjit, dipole.Ayfjit): pure          *)
(* functions of (kx, ky).  A fixed two-band model stands for the external  *)
(* band-structure library: periodic in k with period 3/4 and constant on   *)
(* cells of width 1/4, so that its values stay small.                      *)
(***************************************************************************)
\* floor(4 k) mod 3
per3(k) == ((4 * k.re) \div k.den) % 3

evf(kx, ky) == R(-1 - per3(ky))

ecf(kx, ky) == R(1 + ((per3(kx) + per3(ky)) % 3))

di_00xf(kx, ky) == R(per3(ky) - 1)

di_01xf(kx, ky) == Cx(per3(kx) - 1, per3(ky) - 1, 1)

di_11xf(kx, ky) == R(1 - per3(ky))

di_00yf(kx, ky) == R(per3(kx) - 1)

di_01yf(kx, ky) == Cx(per3(ky) - 1, 1 - per3(kx), 1)

di_11yf(kx, ky) == R(0)

(***************************************************************************)
(* The driving field.                                                      *)
(***************************************************************************)
\* The pulse of the runs: a carrier of half a cycle per time step (w*dt =
\* 1/2) without chirp under an envelope of infinite width (alpha = inf), and
\* a carrier-envelope phase of a whole number of quarter turns, phase*pi/2.
\* On the time grid, whose points are multiples of dt/2, the carrier is at a
\* whole number of quarter turns.
pulse_w == Q(1, 2)

pulse_chirp == R(0)

\* -t**2/(2*alpha)**2 with alpha = inf
pulse_envelope_exponent(tt) == R(0)

\* 2.0*np.pi*w*t*(1 + chirp*t) + phase, in quarter turns
pulse_carrier_quarters(ph, tt) ==
    CAdd(CMul(CMul(R(4), CMul(pulse_w, tt)), CAdd(R(1), CMul(pulse_chirp, tt))), R(ph))

\* np.exp(-t**2/(2*alpha)**2) * np.sin(2.0*np.pi*w*t*(1 + chirp*t) + phase)
pulse_shape(ph, tt) ==
    CMul(np_exp(pulse_envelope_exponent(tt)), np_sin_quarters(pulse_carrier_quarters(ph, tt)))

\* the pulse without its amplitude
electric_field_unscaled(tt) == pulse_shape(phase, tt)

electric_field(tt) == CMul(E0, pulse_shape(phase, tt))

(***************************************************************************)
(* make_fnumba: the two right-hand sides.  Arrays are 0-based functions.   *)
(* A read of y past its end (numba does no bounds check) returns mem, an   *)
(* arbitrary value.                                                        *)
(***************************************************************************)
\* the forward neighbour clamped at the end of the path instead of wrapped
flength_m_clamped(k, Nk_path) ==
    IF k = Nk_path - 1 THEN 4 * k ELSE 4 * (k + 1)

\* flat index of the forward neighbour's f_v, as branched on in flength
flength_m(k, Nk_path) ==
    IF k = 0 THEN 4 * (k + 1)
    ELSE IF k = Nk_path - 1 THEN 0
    ELSE 4 * (k + 1)

\* the backward neighbour clamped at the start of the path instead of wrapped
flength_n_clamped(k, Nk_path) ==
    IF k = 0 THEN 0 ELSE 4 * (k - 1)

\* flat index of the backward neighbour's f_v, as branched on in flength
flength_n(k, Nk_path) ==
    IF k = 0 THEN 4 * (Nk_path - 1)
    ELSE IF k = Nk_path - 1 THEN 4 * (k - 1)
    ELSE 4 * (k - 1)

\* y[j], or whatever lies past the end of the array y
Rd(y, j, mem) == IF j \in DOMAIN y THEN y[j] ELSE mem

\* x[i+2] = x[i+1].conjugate()
x_i2_keeps_sign(x_i1v) == x_i1v

x_i2(x_i1v) == CConj(x_i1v)

\* x[-1] = -electric_f
x_last_plus(electric_f) == electric_f

x_last(electric_f) == CNeg(electric_f)

\* the indices of y that flength reads
flength_reads(Nk_path) ==
    UNION { LET i == 4 * k
                m == flength_m(k, Nk_path)
                n == flength_n(k, Nk_path)
            IN  {i, i + 1, i + 3, m, n, m + 1, n + 1, m + 3, n + 3}
            : k \in 0 .. Nk_path - 1 }

\* the indices of y that fvelocity reads
fvelocity_reads(y, Nk_path) ==
    {size(y) - 1} \cup UNION { {4 * k, 4 * k + 1, 4 * k + 3} : k \in 0 .. Nk_path - 1 }

flength(tt, y, kpath_p, dk_p, ecv_p, dipole_p, A_p, y0_p, mem) ==
    LET electric_f == electric_field(tt)
        D == CDivR(electric_f, CMul(R(2), dk_p))
        Nk_path == size(kpath_p)
        wr(k) == CMul(Rd(dipole_p, k, mem), electric_f)
        wr_d_diag(k) == CMul(Rd(A_p, k, mem), electric_f)
        x_i(k) ==
            LET i == 4 * k
                m == flength_m(k, Nk_path)
                n == flength_n(k, Nk_path)
            IN  CSub(CAdd(CMul(R(2), CImag(CMul(wr(k), y[i + 1]))),
                          CMul(D, CSub(Rd(y, m, mem), Rd(y, n, mem)))),
                     CMul(gamma1, CSub(y[i], y0_p[i])))
        x_i1(k) ==
            LET i == 4 * k
                m == flength_m(k, Nk_path)
                n == flength_n(k, Nk_path)
            IN  CAdd(CSub(CMul(CAdd(CSub(CMul(J1, Rd(ecv_p, k, mem)), gamma2),
                                    CMul(J1, wr_d_diag(k))),
                               y[i + 1]),
                          CMul(CMul(J1, CConj(wr(k))), CSub(y[i], y[i + 3]))),
                     CMul(D, CSub(Rd(y, m + 1, mem), Rd(y, n + 1, mem))))
        x_i3(k) ==
            LET i == 4 * k
                m == flength_m(k, Nk_path)
                n == flength_n(k, Nk_path)
            IN  CSub(CAdd(CNeg(CMul(R(2), CImag(CMul(wr(k), y[i + 1])))),
                          CMul(D, CSub(Rd(y, m + 3, mem), Rd(y, n + 3, mem)))),
                     CMul(gamma1, CSub(y[i + 3], y0_p[i + 3])))
    IN  [j \in DOMAIN y |->
            IF j = size(y) - 1 THEN x_last(electric_f)
            ELSE IF j >= 4 * Nk_path THEN Unset
            ELSE IF j % 4 = 0 THEN x_i(j \div 4)
            ELSE IF j % 4 = 1 THEN x_i1(j \div 4)
            ELSE IF j % 4 = 2 THEN x_i2(x_i1(j \div 4))
            ELSE x_i3(j \div 4)]

\* the coefficients fvelocity recomputes at the shifted path: ecv, dipole, A
\* no shift of the path
fvelocity_k_shift_none(y) == R(0)

fvelocity_k_shift(y) == CReal(y[size(y) - 1])

fvelocity_kx(y, kpath_p, k) == CAdd(kpath_p[k][1], CMul(R(E_dir[1]), fvelocity_k_shift(y)))

fvelocity_ky(y, kpath_p, k) == CAdd(kpath_p[k][2], CMul(R(E_dir[2]), fvelocity_k_shift(y)))

\* the Rabi term of x[i+3] with the sign of the one of x[i]
fvelocity_x_i3_rabi_plus(wr_k, pvc) == CMul(R(2), CImag(CMul(wr_k, pvc)))

\* -2*(wr*y[i+1]).imag
fvelocity_x_i3_rabi(wr_k, pvc) == CNeg(CMul(R(2), CImag(CMul(wr_k, pvc))))

\* the flag dipole_off never looked at
fvelocity_dipole_off_ignored == FALSE

\* if (dipole_off): of fvelocity
fvelocity_dipole_off == dipole_off

fvelocity(tt, y, kpath_p, dk_p, ecv_p, dipole_p, A_p, y0_p, mem) ==
    LET kx(k) == fvelocity_kx(y, kpath_p, k)
        ky(k) == fvelocity_ky(y, kpath_p, k)
        ecv_new(k) == CSub(ecf(kx(k), ky(k)), evf(kx(k), ky(k)))
        dipole_new(k) ==
            IF fvelocity_dipole_off THEN R(0)
            ELSE CAdd(CMul(R(E_dir[1]), di_01xf(kx(k), ky(k))),
                      CMul(R(E_dir[2]), di_01yf(kx(k), ky(k))))
        A_new(k) ==
            IF fvelocity_dipole_off THEN R(0)
            ELSE CSub(CAdd(CMul(R(E_dir[1]), di_00xf(kx(k), ky(k))),
                           CMul(R(E_dir[2]), di_00yf(kx(k), ky(k)))),
                      CAdd(CMul(R(E_dir[1]), di_11xf(kx(k), ky(k))),
                           CMul(R(E_dir[2]), di_11yf(kx(k), ky(k)))))
        electric_f == electric_field(tt)
        Nk_path == size(kpath_p)
        wr(k) == CMul(dipole_new(k), electric_f)
        wr_d_diag(k) == CMul(A_new(k), electric_f)
        x_i(k) ==
            LET i == 4 * k
            IN  CSub(CMul(R(2), CImag(CMul(wr(k), y[i + 1]))),
                     CMul(gamma1, CSub(y[i], y0_p[i])))
        x_i1(k) ==
            LET i == 4 * k
            IN  CSub(CMul(CAdd(CSub(CMul(J1, ecv_new(k)), gamma2),
                               CMul(J1, wr_d_diag(k))),
                          y[i + 1]),
                     CMul(CMul(J1, CConj(wr(k))), CSub(y[i], y[i + 3])))
        x_i3(k) ==
            LET i == 4 * k
            IN  CSub(fvelocity_x_i3_rabi(wr(k), y[i + 1]),
                     CMul(gamma1, CSub(y[i + 3], y0_p[i + 3])))
    IN  [j \in DOMAIN y |->
            IF j = size(y) - 1 THEN x_last(electric_f)
            ELSE IF j >= 4 * Nk_path THEN Unset
            ELSE IF j % 4 = 0 THEN x_i(j \div 4)
            ELSE IF j % 4 = 1 THEN x_i1(j \div 4)
            ELSE IF j % 4 = 2 THEN x_i2(x_i1(j \div 4))
            ELSE x_i3(j \div 4)]

\* no check of the gauge
make_fnumba_accepts_any == TRUE

\* make_fnumba: the gauge selects the right-hand side
make_fnumba_ok == gauge \in {"length", "velocity"}

\* the length-gauge function returned whatever the gauge
f_always_length(tt, y, kpath_p, dk_p, ecv_p, dipole_p, A_p, y0_p, mem) ==
    flength(tt, y, kpath_p, dk_p, ecv_p, dipole_p, A_p, y0_p, mem)

f(tt, y, kpath_p, dk_p, ecv_p, dipole_p, A_p, y0_p, mem) ==
    IF gauge = "length"
    THEN flength(tt, y, kpath_p, dk_p, ecv_p, dipole_p, A_p, y0_p, mem)
    ELSE fvelocity(tt, y, kpath_p, dk_p, ecv_p, dipole_p, A_p, y0_p, mem)

f_reads(y, Nk_path) ==
    IF gauge = "length" THEN flength_reads(Nk_path) ELSE fvelocity_reads(y, Nk_path)

(***************************************************************************)
(* mesh: the two paths of the '2line' Brillouin zone and their k-spacing.  *)
(***************************************************************************)
\* 2*(pi/a)*rel_dist_to_Gamma, in the units of the model
ortho_dist == 1

mesh_alpha(Nk_in_path, j) ==
    linspace(CAdd(Q(-1, 2), Q(1, 2 * Nk_in_path)),
             CSub(Q(1, 2), Q(1, 2 * Nk_in_path)), Nk_in_path, j)

\* kpoint = path_index*vec_k_ortho + alpha*vec_k_path
mesh_kpoint(path_index, Nk_in_path, j) ==
    LET alpha == mesh_alpha(Nk_in_path, j)
        vec_k_path == <<CMul(R(E_dir[1]), length_path_in_BZ),
                        CMul(R(E_dir[2]), length_path_in_BZ)>>
        vec_k_ortho == <<R(ortho_dist * E_dir[2]), R(-ortho_dist * E_dir[1])>>
    IN  <<CAdd(CMul(R(path_index), vec_k_ortho[1]), CMul(alpha, vec_k_path[1])),
          CAdd(CMul(R(path_index), vec_k_ortho[2]), CMul(alpha, vec_k_path[2]))>>

mesh_paths(Nk_in_path) ==
    [p \in 0 .. 1 |->
        [j \in 0 .. Nk_in_path - 1 |->
            mesh_kpoint(IF p = 0 THEN -1 ELSE 1, Nk_in_path, j)]]

\* dk = length_path_in_BZ/(Nk_in_path-1) raises ZeroDivisionError for one point
mesh_faults(Nk_in_path) == Nk_in_path - 1 = 0

\* the division 1/(2*Nk_in_path) taken not to raise
mesh_alpha_no_fault(Nk_in_path) == FALSE

\* 1/(2*Nk_in_path) in the bounds of alpha_array raises ZeroDivisionError for
\* a point count of zero
mesh_alpha_faults(Nk_in_path) == 2 * Nk_in_path = 0

mesh_dk(Nk_in_path) == CDivR(length_path_in_BZ, R(Nk_in_path - 1))

(***************************************************************************)
(* hex_mesh.  The k-points of the full zone are held in the coordinates     *)
(* <<sqrt(3)*kx/h, ky/h>> with h = 2*pi/(sqrt(3)*a), half the height of     *)
(* the hexagon.  In them the lattice vectors of params.py and every test    *)
(* of is_in_hex and reflect_point are rational:                             *)
(*     y <= 2*pi/(sqrt(3)*a)                is  p[2] <= 1                   *)
(*     sqrt(3)*x + y <= 4*pi/(sqrt(3)*a)    is  p[1] + p[2] <= 2            *)
(* A float64 k-point is its exact value and a rounding error err =          *)
(* <<dv, du>>, the signs of the error of its two coordinates.  The error    *)
(* decides the comparisons of a point that is exactly on an edge of the     *)
(* hexagon, and a lattice translation keeps it; for every k-point of a      *)
(* mesh any error is possible.                                              *)
(***************************************************************************)
\* params.b1 = (2*pi/(a*sqrt(3)))*(sqrt(3), -1)
hex_b1 == <<R(3), R(-1)>>

\* params.b2 = (4*pi/(a*sqrt(3)))*(0, 1)
hex_b2 == <<R(0), R(2)>>

\* b_a1 = 8*pi/(a*3)*(1, 0)
hex_b_a1 == <<R(4), R(0)>>

\* b_a2 = 4*pi/(a*3)*(1, sqrt(3))
hex_b_a2 == <<R(2), R(2)>>

\* (2*pi/a)*(1, 1/sqrt(3)), the shift of the points outside the hexagon
hex_K_shift == <<R(3), R(1)>>

\* the rounding errors of a k-point
HexErrors == {<<dv, du>> : dv \in -1 .. 1, du \in -1 .. 1}

VAdd(p, q) == <<CAdd(p[1], q[1]), CAdd(p[2], q[2])>>

VSub(p, q) == <<CSub(p[1], q[1]), CSub(p[2], q[2])>>

VScale(c, p) == <<CMul(c, p[1]), CMul(c, p[2])>>

\* np.abs of a real number
np_abs(a) == IF a.re < 0 THEN CNeg(a) ELSE a

\* the error of np.abs(a) for a of error d
np_abs_err(a, d) == IF a.re > 0 THEN d ELSE IF a.re < 0 THEN -d ELSE Abs(d)

\* a > b in float64 for a of error d: decided by the error when a = b exactly
float_greater(a, d, b) == RLess(b, a) \/ (a = b /\ d > 0)

\* a < b in float64 for a of error d
float_less(a, d, b) == RLess(a, b) \/ (a = b /\ d < 0)

is_in_hex(p, err) ==
    LET xa == np_abs(p[1])
        ya == np_abs(p[2])
        xd == np_abs_err(p[1], err[1])
        yd == np_abs_err(p[2], err[2])
    IN  ~float_greater(ya, yd, R(1)) /\ ~float_greater(CAdd(xa, ya), xd + yd, R(2))

reflect_point(p, err) ==
    IF float_greater(p[2], err[2], R(1)) THEN VSub(p, hex_b2)
    ELSE IF float_less(p[2], err[2], R(-1)) THEN VAdd(p, hex_b2)
    ELSE IF float_greater(CAdd(p[1], p[2]), err[1] + err[2], R(2))
         THEN VSub(p, VAdd(hex_b1, hex_b2))
    ELSE IF float_less(CSub(p[2], p[1]), err[2] - err[1], R(-2)) THEN VSub(p, hex_b1)
    ELSE IF float_less(CAdd(p[1], p[2]), err[1] + err[2], R(-2))
         THEN VAdd(p, VAdd(hex_b1, hex_b2))
    ELSE IF float_greater(CSub(p[2], p[1]), err[2] - err[1], R(2)) THEN VAdd(p, hex_b1)
    ELSE p

\* while (not is_in_hex(kpoint, a)): kpoint = reflect_point(kpoint, a, b1, b2)
RECURSIVE hex_reflect_into(_, _)
hex_reflect_into(kpoint, err) ==
    IF is_in_hex(kpoint, err) THEN kpoint
    ELSE hex_reflect_into(reflect_point(kpoint, err), err)

\* alpha1[j]: the second linspace replaces the first for align 'K'
\* 1/(2*Nk1) and 1/(2*Nk2) in the bounds of alpha1 and alpha2 raise
\* ZeroDivisionError for a point count or a path count of zero
hex_alpha_faults(n1, n2) == 2 * n1 = 0 \/ 2 * n2 = 0

hex_alpha1(n1, al, j) ==
    IF al = "K"
    THEN linspace(CAdd(Q(-1, 2), Q(1, 2 * n1)), CSub(R(1), Q(1, 2 * n1)), n1, j)
    ELSE linspace(CAdd(Q(-1, 2), Q(1, 2 * n1)), CSub(Q(1, 2), Q(1, 2 * n1)), n1, j)

\* alpha2[j]
hex_alpha2(n2, al, j) ==
    IF al = "K"
    THEN linspace(R(0), CSub(Q(1, 2), Q(1, 2 * n2)), n2, j)
    ELSE linspace(CAdd(Q(-1, 2), Q(1, 2 * n2)), CSub(Q(1, 2), Q(1, 2 * n2)), n2, j)

\* the body of the inner loop of align 'M' left a path without the points
\* that had to be reflected
hex_path_M_append_inside_only(path_M, kpoint, err) ==
    IF is_in_hex(kpoint, err) THEN Append(path_M, kpoint) ELSE path_M

\* the body of the inner loop of align 'M': one append on either branch
hex_path_M_append(path_M, kpoint, err) ==
    IF is_in_hex(kpoint, err)
    THEN Append(path_M, kpoint)
    ELSE Append(path_M, hex_reflect_into(kpoint, err))

\* the body of the inner loop of align 'K': one append on either branch
hex_path_K_append(path_K, kpoint, err) ==
    IF is_in_hex(kpoint, err)
    THEN Append(path_K, kpoint)
    ELSE Append(path_K, VSub(kpoint, hex_K_shift))

\* kpoint = a1*b1 + a2*b2 (align 'M'), a1*b_a1 + a2*b_a2 (align 'K')
hex_kpoint(al, a1, a2) ==
    IF al = "M"
    THEN VAdd(VScale(a1, hex_b1), VScale(a2, hex_b2))
    ELSE VAdd(VScale(a1, hex_b_a1), VScale(a2, hex_b_a2))

\* the lists a path can be after the first n iterations of "for a1 in alpha1"
RECURSIVE hex_path(_, _, _, _)
hex_path(n1, al, a2, n) ==
    IF n = 0 THEN {<<>>}
    ELSE LET kpoint == hex_kpoint(al, hex_alpha1(n1, al, n - 1), a2)
         IN  {IF al = "M"
              THEN hex_path_M_append(path, kpoint, err)
              ELSE hex_path_K_append(path, kpoint, err) :
                  path \in hex_path(n1, al, a2, n - 1), err \in HexErrors}

\* the lists paths can be after the first n iterations of "for a2 in alpha2";
\* an align that is neither 'M' nor 'K' runs no loop
RECURSIVE hex_paths_list(_, _, _, _)
hex_paths_list(n1, n2, al, n) ==
    IF n = 0 \/ al \notin {"M", "K"} THEN {<<>>}
    ELSE {Append(list, path) :
              list \in hex_paths_list(n1, n2, al, n - 1),
              path \in hex_path(n1, al, hex_alpha2(n2, al, n - 1), n1)}

\* np.array of a list: the same items, counted from 0
np_array(list) == [j \in 0 .. Len(list) - 1 |-> list[j + 1]]

\* the values of hex_mesh(Nk1, Nk2, a, b1, b2, align)[1]
hex_mesh_paths(n1, n2, al) ==
    {[p \in 0 .. Len(list) - 1 |-> np_array(list[p + 1])] :
         list \in hex_paths_list(n1, n2, al, n2)}

(***************************************************************************)
(* initial_condition                                                       *)
(***************************************************************************)
\* the cut 1e-5 on the temperature
temperature_cut == Q(1, 100000)

\* 1/(v + 1) in float64: inf + 1 = inf and 1/inf = 0.0
float_recip_1p(v) == IF v = np_inf THEN R(0) ELSE CDivR(R(1), CAdd(v, R(1)))

FermiDirac(e, ef, temp) == float_recip_1p(np_exp(CDivR(CSub(e, ef), temp)))

\* the row distrib; at low temperature ones[mask] keeps one entry per True of
\* the mask (e_fermi - e_c) < 0
initial_condition_distrib(ef, temp, e_c) ==
    IF RLess(temperature_cut, temp)
    THEN [k \in DOMAIN e_c |-> FermiDirac(e_c[k], ef, temp)]
    ELSE LET smaller_e_fermi == {k \in DOMAIN e_c : RLess(CSub(ef, e_c[k]), R(0))}
         IN  [k \in 0 .. Cardinality(smaller_e_fermi) - 1 |-> R(1)]

\* np.array([ones, zeros, zeros, distrib]) of rows of unequal length is no
\* 4 x knum array: building the state vector fails
initial_condition_faults(ef, temp, e_c) ==
    size(initial_condition_distrib(ef, temp, e_c)) # size(e_c)

\* flatten('C'): row-major
flatten_C(rows, knum) == [j \in 0 .. 4 * knum - 1 |-> rows[(j \div knum) + 1][j % knum]]

\* flatten('F'): column-major, entry j is row j % 4 of column j \div 4
flatten_F(rows, knum) == [j \in 0 .. 4 * knum - 1 |-> rows[(j % 4) + 1][j \div 4]]

initial_condition(ef, temp, e_c) ==
    LET knum == size(e_c)
        ones == [k \in 0 .. knum - 1 |-> R(1)]
        zeros == [k \in 0 .. knum - 1 |-> R(0)]
        distrib == initial_condition_distrib(ef, temp, e_c)
    IN  flatten_F(<<ones, zeros, zeros, distrib>>, knum)

\* np.append(arr, [v])
np_append(arr, v) == [j \in 0 .. size(arr) |-> IF j < size(arr) THEN arr[j] ELSE v]

(***************************************************************************)
(* main: coefficients along a path                                         *)
(***************************************************************************)
main_ec(path) == [k \in DOMAIN path |-> ecf(path[k][1], path[k][2])]

main_ecv_in_path(path) ==
    [k \in DOMAIN path |-> CSub(ecf(path[k][1], path[k][2]), evf(path[k][1], path[k][2]))]

main_dipole_in_path(path) ==
    [k \in DOMAIN path |->
        IF dipole_off THEN R(0)
        ELSE CAdd(CMul(R(E_dir[1]), di_01xf(path[k][1], path[k][2])),
                  CMul(R(E_dir[2]), di_01yf(path[k][1], path[k][2])))]

main_A_in_path(path) ==
    [k \in DOMAIN path |->
        IF dipole_off THEN R(0)
        ELSE CSub(CAdd(CMul(R(E_dir[1]), di_00xf(path[k][1], path[k][2])),
                       CMul(R(E_dir[2]), di_00yf(path[k][1], path[k][2]))),
                  CAdd(CMul(R(E_dir[1]), di_11xf(path[k][1], path[k][2])),
                       CMul(R(E_dir[2]), di_11yf(path[k][1], path[k][2]))))]

(***************************************************************************)
(* main: time grid                                                         *)
(***************************************************************************)
\* params.dt*fs_to_au, in the units of the model
main_dt == R(1)

\* the stride that rounds Nf/params.Nt down
main_dt_out_floor == Nf \div NtOut

\* dt_out = int(ceil(Nf/params.Nt))
main_dt_out == (Nf + NtOut - 1) \div NtOut

\* Nt = dt_out*params.Nt
main_Nt == main_dt_out * NtOut

\* t0 = (-total_fs/2)*fs_to_au
main_t0 == CNeg(CDivR(CMul(R(main_Nt), main_dt), R(2)))

\* the time the integrator was left at by the propagation before
set_initial_value_t_kept == solver_t

\* solver.set_initial_value(y0, t0): the time propagation starts from
set_initial_value_t == main_t0

\* the block cut from the state without its first entry
reshape_Nk1_4_from_1(y, k, c) == y[4 * k + c + 1]

\* solver.y[:-1].reshape(Nk1, 4)[k][c]
reshape_Nk1_4(y, k, c) == y[4 * k + c]

\* solver.integrate(solver.t + dt): the library integrator, taken as one
\* step y + dt*f(t, y) of the right-hand side
integrate_y(y, xx) == [j \in DOMAIN y |-> CAdd(y[j], CMul(main_dt, xx[j]))]

\* an array as the integrator holds it between two steps: its values, each
\* computed once
held_array(y) ==
    LET entries == {<<j, y[j]>> : j \in DOMAIN y}
    IN  [j \in {e[1] : e \in entries} |-> (CHOOSE e \in entries : e[1] = j)[2]]

\* the values a read past the end of y may return
Garbage == {R(0), Cx(1, 1, 1), Cx(-3, 2, 2)}

MemChoices(y, Nk_path) == IF f_reads(y, Nk_path) \subseteq DOMAIN y THEN {R(0)} ELSE Garbage

(***************************************************************************)
(* make_emission_exact.  The Hamiltonian derivative and the eigenvector   *)
(* matrices belong to the band model; they are periodic like the energies. *)
(* A matrix is a function [0..1 -> [0..1 -> value]].                       *)
(***************************************************************************)
hdx_00(kx, ky) == R(per3(kx) - 1)

hdx_01(kx, ky) == Cx(1, per3(ky) - 1, 1)

hdx_10(kx, ky) == CConj(hdx_01(kx, ky))

hdx_11(kx, ky) == R(per3(ky))

hdy_00(kx, ky) == R(per3(ky) - 1)

hdy_01(kx, ky) == Cx(per3(kx), 1, 1)

hdy_10(kx, ky) == CConj(hdy_01(kx, ky))

hdy_11(kx, ky) == R(1)

\* which of three unitary matrices the eigenvectors form at (kx, ky)
Ukind(kx, ky) == (per3(kx) + per3(ky)) % 3

U_00(kx, ky) == IF Ukind(kx, ky) = 1 THEN R(0) ELSE R(1)

U_01(kx, ky) == IF Ukind(kx, ky) = 1 THEN R(1) ELSE R(0)

U_10(kx, ky) == IF Ukind(kx, ky) = 1 THEN R(-1) ELSE R(0)

U_11(kx, ky) == IF Ukind(kx, ky) = 0 THEN R(1) ELSE IF Ukind(kx, ky) = 1 THEN R(0) ELSE J1

U_h_00(kx, ky) == CConj(U_00(kx, ky))

U_h_01(kx, ky) == CConj(U_10(kx, ky))

U_h_10(kx, ky) == CConj(U_01(kx, ky))

U_h_11(kx, ky) == CConj(U_11(kx, ky))

\* a non-finite floating-point value
NaN == [re |-> 1, im |-> 0, den |-> 0]

\* the operator @ on 2x2 matrices
MatMul(A, B) ==
    LET e(i, j) == CAdd(CMul(A[i][0], B[0][j]), CMul(A[i][1], B[1][j]))
    IN  (0 :> (0 :> e(0, 0) @@ 1 :> e(0, 1))) @@ (1 :> (0 :> e(1, 0) @@ 1 :> e(1, 1)))

\* E_ort = np.array([E_dir[1], -E_dir[0]])
E_ort == <<E_dir[2], -E_dir[1]>>

\* a slot of an np.empty array that was never written holds whatever was in
\* memory
Held(v, mem) == IF v = Unset THEN mem ELSE v

\* fv_subs
emission_fv_subs == IF gauge = "length" THEN R(0) ELSE R(1)

\* the time index whose vector potential shifts the path
emission_A_first(Af, i_time) == Af[0]

emission_A(Af, i_time) == Af[i_time]

\* kx_shift, ky_shift
emission_kx_shift(Af, i_time, mem) ==
    IF gauge = "length" THEN R(0)
    ELSE CMul(Held(emission_A(Af, i_time), mem), R(E_dir[1]))

emission_ky_shift(Af, i_time, mem) ==
    IF gauge = "length" THEN R(0)
    ELSE CMul(Held(emission_A(Af, i_time), mem), R(E_dir[2]))

\* <<kx_in_path[i_k], ky_in_path[i_k]>>
emission_k(Af, i_time, i_path, i_k, mem) ==
    <<CAdd(paths[i_path][i_k][1], emission_kx_shift(Af, i_time, mem)),
      CAdd(paths[i_path][i_k][2], emission_ky_shift(Af, i_time, mem))>>

\* h_deriv_x*dir[0] + h_deriv_y*dir[1] at one k-point
h_deriv_dir(dir, kx, ky) ==
    LET hx == <<hdx_00(kx, ky), hdx_01(kx, ky), hdx_10(kx, ky), hdx_11(kx, ky)>>
        hy == <<hdy_00(kx, ky), hdy_01(kx, ky), hdy_10(kx, ky), hdy_11(kx, ky)>>
        e(n) == CAdd(CMul(hx[n], R(dir[1])), CMul(hy[n], R(dir[2])))
    IN  (0 :> (0 :> e(1) @@ 1 :> e(2))) @@ (1 :> (0 :> e(3) @@ 1 :> e(4)))

Umat(kx, ky) ==
    (0 :> (0 :> U_00(kx, ky) @@ 1 :> U_01(kx, ky)))
        @@ (1 :> (0 :> U_10(kx, ky) @@ 1 :> U_11(kx, ky)))

Umat_h(kx, ky) ==
    (0 :> (0 :> U_h_00(kx, ky) @@ 1 :> U_h_01(kx, ky)))
        @@ (1 :> (0 :> U_h_10(kx, ky) @@ 1 :> U_h_11(kx, ky)))

\* the product with U and U_h exchanged
U_h_H_U_swapped(dir, kx, ky) ==
    MatMul(Umat(kx, ky), MatMul(h_deriv_dir(dir, kx, ky), Umat_h(kx, ky)))

\* U_h[i_k] @ (h_deriv[i_k] @ U[i_k])
U_h_H_U(dir, kx, ky) ==
    MatMul(Umat_h(kx, ky), MatMul(h_deriv_dir(dir, kx, ky), Umat(kx, ky)))

\* the three += of one k-point for one direction
emission_term(dir, sol, Af, i_time, i_path, i_k, mem, pole) ==
    LET kk == emission_k(Af, i_time, i_path, i_k, mem)
        M == U_h_H_U(dir, kk[1], kk[2])
        fv == Held(sol[i_k][i_path][i_time][0], mem)
        pcv == Held(sol[i_k][i_path][i_time][2], mem)
        fc == Held(sol[i_k][i_path][i_time][3], mem)
    IN  IF pole = kk THEN NaN
        ELSE CAdd(CAdd(CMul(CReal(M[0][0]), CSub(CReal(fv), emission_fv_subs)),
                       CMul(CReal(M[1][1]), CReal(fc))),
                  CMul(R(2), CReal(CMul(M[0][1], pcv))))

\* += on float64: a non-finite operand gives a non-finite result
FAdd(a, b) == IF a = NaN \/ b = NaN THEN NaN ELSE CAdd(a, b)

\* the accumulation over the first n entries of order, a sequence of
\* <<i_path, i_k>>, starting from the zero of np.zeros
RECURSIVE emission_accumulate(_, _, _, _, _, _, _, _)
emission_accumulate(order, n, dir, sol, Af, i_time, mem, pole) ==
    IF n = 0 THEN R(0)
    ELSE FAdd(emission_accumulate(order, n - 1, dir, sol, Af, i_time, mem, pole),
              emission_term(dir, sol, Af, i_time, order[n][1], order[n][2], mem, pole))

\* for i_path, path in enumerate(paths): for i_k in range(pathlen)
emission_order ==
    [n \in 1 .. size(paths) * Nk1 |-> <<(n - 1) \div Nk1, (n - 1) % Nk1>>]

\* emission_exact(): I_E_dir and I_ortho, one entry per time index
emission_exact(dir, sol, Af, mem, pole) ==
    [i_time \in 0 .. NtOut - 1 |->
        emission_accumulate(emission_order, size(paths) * Nk1, dir, sol, Af, i_time,
                            mem, pole)]

(***************************************************************************)
(* main                                                                    *)
(***************************************************************************)
\* params.length_path_in_BZ, chosen with the number of points so that the
\* k-spacing of a path of two or more points is 1/2
PathLength(n) == Q(IF n = 1 THEN 1 ELSE n - 1, 2)

Gauges == {"length", "velocity"}

\* params.gauge is any string
GaugeInputs == Gauges \cup {"coulomb"}

Directions == {<<1, 0>>, <<0, 1>>}

\* <<E0, phase>>
FieldChoices == {<<R(0), 0>>, <<R(1), 0>>, <<R(1), 1>>}

\* <<E0, phase, dipole_off, save_file, save_full>> of a run
RunChoices == {<<R(0), 0, FALSE, TRUE, FALSE>>, <<R(1), 0, FALSE, TRUE, FALSE>>,
               <<R(1), 1, FALSE, FALSE, TRUE>>, <<R(1), 0, TRUE, TRUE, TRUE>>}

\* <<e_fermi, temperature>>: above the cut, at zero temperature with the
\* Fermi level below and inside the band, and at the cut.  Above the cut the
\* temperature is 1/1000 of the band spacing, where the float64 occupations
\* are exactly 1, 1/2 and 0.
ThermalChoices == {<<R(2), Q(1, 1000)>>, <<R(0), R(0)>>,
                   <<R(2), R(0)>>, <<R(4), temperature_cut>>}

Init ==
    /\ gauge \in GaugeInputs
    /\ band_pole = <<>>
    /\ I_exact_E_dir = <<>>
    /\ I_exact_ortho = <<>>
    /\ files = {}
    /\ E_dir \in Directions
    /\ \E rc \in RunChoices :
          /\ E0 = rc[1] /\ phase = rc[2] /\ dipole_off = rc[3]
          /\ save_file = rc[4] /\ save_full = rc[5]
    /\ gamma1 = Q(1, 2)
    /\ gamma2 = R(1)
    /\ \E tc \in ThermalChoices : e_fermi = tc[1] /\ temperature = tc[2]
    /\ BZ_type = "2line"
    /\ Nk2 = 2
    /\ align = "None"
    /\ Nk1 \in 1 .. MaxNk
    /\ length_path_in_BZ = PathLength(Nk1)
    /\ Nf \in 1 .. MaxNf
    /\ NtOut \in 1 .. MaxNtOut
    /\ pc = "setup"
    /\ fault = "none"
    /\ dk = Unset
    /\ paths = <<>>
    /\ Nk2_idx = 0
    /\ kpath = <<>>
    /\ ecv_in_path = <<>>
    /\ dipole_in_path = <<>>
    /\ A_in_path = <<>>
    /\ y0 = <<>>
    /\ solver_y = <<>>
    /\ solver_t = R(0)
    /\ solver_ok = TRUE
    /\ ti = 0
    /\ t_idx = 0
    /\ t_constructed = FALSE
    /\ t = <<>>
    /\ solution = <<>>
    /\ A_field = <<>>
    /\ x = <<>>
    /\ reads = {}

params_vars == <<gauge, dipole_off, E_dir, E0, phase, gamma1, gamma2, e_fermi,
                 temperature, BZ_type, Nk1, Nk2, align, length_path_in_BZ, Nf, NtOut,
                 save_file, save_full>>

path_vars == <<kpath, ecv_in_path, dipole_in_path, A_in_path, y0>>

solver_vars == <<solver_y, solver_t, solver_ok>>

out_vars == <<t, solution, A_field>>

obs_vars == <<band_pole, I_exact_E_dir, I_exact_ortho, files>>

\* lines 87-100: only mesh, called for '2line', divides by Nk_in_path - 1
main_mesh_faults ==
    IF BZ_type = "full" THEN hex_alpha_faults(Nk1, Nk2)
    ELSE mesh_alpha_faults(Nk1) \/ mesh_faults(Nk1)

\* dk = 1/Nk1 (line 89) or the dk of mesh (line 99)
main_dk == IF BZ_type = "full" THEN Q(1, Nk1) ELSE mesh_dk(Nk1)

\* the values of paths: of hex_mesh (line 88) or of mesh (line 99)
main_paths ==
    IF BZ_type = "full" THEN hex_mesh_paths(Nk1, Nk2, align) ELSE {mesh_paths(Nk1)}

\* lines 87-116: mesh, containers, make_fnumba
Setup ==
    /\ pc = "setup"
    /\ IF main_mesh_faults
       THEN /\ pc' = "error"
            /\ fault' = "ZeroDivisionError"
            /\ UNCHANGED <<dk, paths, out_vars>>
       ELSE /\ dk' = main_dk
            /\ paths' \in main_paths
            /\ t' = [s \in 0 .. NtOut - 1 |-> Unset]
            /\ A_field' = [s \in 0 .. NtOut - 1 |-> Unset]
            /\ solution' = [k \in 0 .. Nk1 - 1 |-> [p \in 0 .. Nk2 - 1 |->
                               [s \in 0 .. NtOut - 1 |-> [c \in 0 .. 3 |-> Unset]]]]
            /\ IF make_fnumba_ok
               THEN pc' = "path_init" /\ fault' = "none"
               ELSE pc' = "error" /\ fault' = "AttributeError"
    /\ UNCHANGED <<params_vars, Nk2_idx, path_vars, solver_vars, ti, t_idx,
                   t_constructed, x, reads, obs_vars>>

\* dtype=np.complex (line 127): np.complex is an alias of complex that numpy
\* removed in version 1.24, so with dipole_off the line evaluates or raises
\* AttributeError, depending on the numpy installed
np_complex_outcomes ==
    IF dipole_off THEN {"complex", "AttributeError"} ELSE {"complex"}

\* lines 121-164: coefficients, initial condition, set_initial_value
PathInit ==
    /\ pc = "path_init"
    /\ \E np_complex \in np_complex_outcomes :
       LET path == paths[Nk2_idx]
           ec == main_ec(path)
       IN  IF np_complex = "AttributeError"
           THEN /\ pc' = "error"
                /\ fault' = "AttributeError"
                /\ UNCHANGED <<path_vars, solver_vars, ti, t_idx>>
           ELSE IF initial_condition_faults(e_fermi, temperature, ec)
           THEN /\ pc' = "error"
                /\ fault' = "ValueError"
                /\ UNCHANGED <<path_vars, solver_vars, ti, t_idx>>
           ELSE /\ kpath' = path
                /\ ecv_in_path' = main_ecv_in_path(path)
                /\ dipole_in_path' = main_dipole_in_path(path)
                /\ A_in_path' = main_A_in_path(path)
                /\ y0' = np_append(initial_condition(e_fermi, temperature, ec), R(0))
                /\ solver_y' = y0'
                /\ solver_t' = set_initial_value_t
                /\ solver_ok' = TRUE
                /\ ti' = 0
                /\ t_idx' = 0
                /\ pc' = "loop"
                /\ fault' = "none"
    /\ UNCHANGED <<params_vars, dk, paths, Nk2_idx, t_constructed, out_vars, x, reads,
                   obs_vars>>

\* the time axis written in every path
construct_t_always == TRUE

\* if not t_constructed
construct_t == ~t_constructed

\* the slice of the other of the two paths
save_path_other == 1 - Nk2_idx

\* the path index of solution[:, Nk2_idx, t_idx, :]
save_path == Nk2_idx

\* lines 166-188: one pass of the propagation loop
Step ==
    /\ pc = "loop"
    /\ solver_ok /\ ti < main_Nt
    /\ \E ok \in BOOLEAN, mem \in MemChoices(solver_y, size(kpath)) :
          LET xx == f(solver_t, solver_y, kpath, dk, ecv_in_path, dipole_in_path,
                      A_in_path, y0, mem)
              ynew == IF ok THEN integrate_y(solver_y, xx) ELSE solver_y
              tnew == IF ok THEN CAdd(solver_t, main_dt) ELSE solver_t
          IN  /\ x' = xx
              /\ reads' = f_reads(solver_y, size(kpath))
              /\ solver_y' = ynew
              /\ solver_t' = tnew
              /\ solver_ok' = ok
              /\ IF ti % main_dt_out = 0
                 THEN /\ solution' = [k \in DOMAIN solution |->
                                        [solution[k] EXCEPT ![save_path][t_idx] =
                                            [c \in 0 .. 3 |-> reshape_Nk1_4(ynew, k, c)]]]
                      /\ IF construct_t
                         THEN /\ t' = [t EXCEPT ![t_idx] = tnew]
                              /\ A_field' = [A_field EXCEPT ![t_idx] = ynew[size(ynew) - 1]]
                         ELSE UNCHANGED <<t, A_field>>
                      /\ t_idx' = t_idx + 1
                 ELSE UNCHANGED <<out_vars, t_idx>>
              /\ ti' = ti + 1
    /\ UNCHANGED <<params_vars, pc, fault, dk, paths, Nk2_idx, path_vars, t_constructed,
                   obs_vars>>

\* lines 166, 190-191, 121: the loop ends, the next path or the observables
PathEnd ==
    /\ pc = "loop"
    /\ ~(solver_ok /\ ti < main_Nt)
    /\ t_constructed' = TRUE
    /\ Nk2_idx' = Nk2_idx + 1
    /\ pc' = IF Nk2_idx + 1 < size(paths) THEN "path_init" ELSE "observables"
    /\ UNCHANGED <<params_vars, fault, dk, paths, path_vars, solver_vars, ti, t_idx,
                   out_vars, x, reads, obs_vars>>

\* the values the emission may read from slots that were never written
HeldChoices ==
    IF \/ \E s \in DOMAIN A_field : A_field[s] = Unset
       \/ \E k \in DOMAIN solution : \E p \in DOMAIN solution[k] :
             \E s \in DOMAIN solution[k][p] : solution[k][p][s][0] = Unset
    THEN {R(0), Cx(1, 1, 1)} ELSE {R(0)}

\* lines 208-226: the frequency axis and the emission
Observables ==
    /\ pc = "observables"
    /\ IF NtOut < 2
       THEN /\ pc' = "error"
            /\ fault' = "IndexError"
            /\ UNCHANGED <<I_exact_E_dir, I_exact_ortho>>
       ELSE \E mem \in HeldChoices :
                /\ I_exact_E_dir' = emission_exact(E_dir, solution, A_field, mem, band_pole)
                /\ I_exact_ortho' = emission_exact(E_ort, solution, A_field, mem, band_pole)
                /\ pc' = "save"
                /\ fault' = "none"
    /\ UNCHANGED <<params_vars, dk, paths, Nk2_idx, path_vars, solver_vars, ti, t_idx,
                   t_constructed, out_vars, x, reads, band_pole, files>>

\* lines 237-250: the output files
Save ==
    /\ pc = "save"
    /\ files' = (IF save_file THEN {"Iexact", "params.txt"} ELSE {})
                    \cup (IF save_full THEN {"Sol"} ELSE {})
    /\ pc' = "done"
    /\ UNCHANGED <<params_vars, fault, dk, paths, Nk2_idx, path_vars, solver_vars, ti,
                   t_idx, t_constructed, out_vars, x, reads, band_pole, I_exact_E_dir,
                   I_exact_ortho>>

Next == Setup \/ PathInit \/ Step \/ PathEnd \/ Observables \/ Save

Spec == Init /\ [][Next]_vars

(***************************************************************************)
(* The right-hand side as a function of its arguments: it is called with   *)
(* any time, any state vector and any coefficient arrays of a path.        *)
(***************************************************************************)
\* a state vector of 4*n + 1 entries: complex density-matrix entries and a
\* real vector potential in the last slot
StateVector(seed, n) ==
    [j \in 0 .. 4 * n |->
        IF j = 4 * n THEN R(seed - 1)
        ELSE Cx((((seed + 1) * (j + 2)) % 5) - 2, ((seed + j * j) % 3) - 1,
                1 + ((j + seed) % 2))]

\* coefficient arrays that are not the band model's values on the path
OtherEcv(path) == [k \in DOMAIN path |-> R(k + 7)]

OtherDipole(path) == [k \in DOMAIN path |-> Cx(2, k + 1, 1)]

OtherA(path) == [k \in DOMAIN path |-> R(3 - k)]

NumSeeds == 3

\* the arguments of a call: the band model's arrays of the path, or other
\* arrays of the path's length
ArgShapes == {"band", "other"}

\* the lengths of the path and of its coefficient arrays agree and the path
\* has a k-point
ArgsMatch ==
    /\ size(kpath) >= 1
    /\ size(ecv_in_path) = size(kpath)
    /\ size(dipole_in_path) = size(kpath)
    /\ size(A_in_path) = size(kpath)

InitF ==
    /\ gauge \in Gauges
    /\ save_file = FALSE
    /\ save_full = FALSE
    /\ band_pole = <<>>
    /\ I_exact_E_dir = <<>>
    /\ I_exact_ortho = <<>>
    /\ files = {}
    /\ dipole_off \in BOOLEAN
    /\ E_dir \in Directions
    /\ \E fc \in FieldChoices : E0 = fc[1] /\ phase = fc[2]
    /\ gamma1 = Q(1, 2)
    /\ gamma2 = R(1)
    /\ e_fermi = R(2)
    /\ temperature = Q(1, 1000)
    /\ BZ_type \in {"full", "2line"}
    /\ Nk2 = 2
    /\ align = IF BZ_type = "full" THEN "K" ELSE "None"
    /\ Nk1 \in 1 .. MaxNk
    /\ length_path_in_BZ = PathLength(Nk1)
    /\ Nf = 1
    /\ NtOut = 1
    /\ pc = "f_setup"
    /\ fault = "none"
    /\ dk = Unset
    /\ paths = mesh_paths(Nk1)
    /\ Nk2_idx \in 0 .. 1
    /\ \E shape \in ArgShapes :
          /\ kpath = paths[Nk2_idx]
          /\ ecv_in_path = IF shape = "band" THEN main_ecv_in_path(kpath)
                           ELSE OtherEcv(kpath)
          /\ dipole_in_path = IF shape = "band" THEN main_dipole_in_path(kpath)
                              ELSE OtherDipole(kpath)
          /\ A_in_path = IF shape = "band" THEN main_A_in_path(kpath)
                         ELSE OtherA(kpath)
    /\ y0 = np_append(initial_condition(e_fermi, temperature, main_ec(kpath)), R(0))
    /\ \E seed \in 0 .. NumSeeds - 1 : solver_y = StateVector(seed, size(kpath))
    /\ solver_t \in {R(-1), R(0)}
    /\ solver_ok = TRUE
    /\ ti = 0
    /\ t_idx = 0
    /\ t_constructed = FALSE
    /\ t = <<>>
    /\ solution = <<>>
    /\ A_field = <<>>
    /\ x = <<>>
    /\ reads = {}

\* the k-spacing main hands over: 1/Nk1 for the full zone (line 89), the one
\* of mesh for two lines (line 99)
FSetup ==
    /\ pc = "f_setup"
    /\ IF BZ_type = "full"
       THEN dk' = Q(1, Nk1) /\ pc' = "f_ready" /\ fault' = "none"
       ELSE IF mesh_faults(Nk1)
            THEN dk' = dk /\ pc' = "f_fault" /\ fault' = "ZeroDivisionError"
            ELSE dk' = mesh_dk(Nk1) /\ pc' = "f_ready" /\ fault' = "none"
    /\ UNCHANGED <<params_vars, paths, Nk2_idx, path_vars, solver_vars, ti, t_idx,
                   t_constructed, out_vars, x, reads, obs_vars>>

\* one call f(t, y, *f_params)
FEval ==
    /\ pc = "f_ready"
    /\ \E mem \in MemChoices(solver_y, size(kpath)) :
          x' = f(solver_t, solver_y, kpath, dk, ecv_in_path, dipole_in_path,
                 A_in_path, y0, mem)
    /\ reads' = f_reads(solver_y, size(kpath))
    /\ pc' = "f_done"
    /\ UNCHANGED <<params_vars, fault, dk, paths, Nk2_idx, path_vars, solver_vars,
                   ti, t_idx, t_constructed, out_vars, obs_vars>>

NextF == FSetup \/ FEval

SpecF == InitF /\ [][NextF]_vars

(***************************************************************************)
(* The emission as a function of its arguments: it is called with any      *)
(* solution tensor and any recorded vector potential.                      *)
(***************************************************************************)
\* a solution tensor of complex entries
SolutionTensor(seed, nk, nt) ==
    [k \in 0 .. nk - 1 |-> [p \in 0 .. 1 |-> [s \in 0 .. nt - 1 |-> [c \in 0 .. 3 |->
        Cx(((seed + 2 * k + 3 * p + s + c) % 5) - 2, ((seed + k + p + 2 * s + c * c) % 3) - 1,
           1 + ((k + s + seed) % 2))]]]]

\* a recorded vector potential
VectorPotential(seed, nt) == [s \in 0 .. nt - 1 |-> Q(2 * s + seed - 1, 2)]

\* where the band model may fail to be finite: nowhere, or at one of the
\* k-points the emission evaluates
PoleChoices ==
    {<<>>, emission_k(A_field, 0, 0, 0, R(0)),
           emission_k(A_field, NtOut - 1, 1, Nk1 - 1, R(0))}

InitE ==
    /\ gauge \in Gauges
    /\ dipole_off = FALSE
    /\ E_dir \in Directions
    /\ E0 = R(1)
    /\ phase = 0
    /\ gamma1 = Q(1, 2)
    /\ gamma2 = R(1)
    /\ e_fermi = R(2)
    /\ temperature = Q(1, 1000)
    /\ BZ_type = "2line"
    /\ Nk2 = 2
    /\ align = "None"
    /\ save_file = FALSE
    /\ save_full = FALSE
    /\ Nk1 \in 1 .. MaxNk
    /\ length_path_in_BZ = PathLength(Nk1)
    /\ Nf = 1
    /\ NtOut \in 1 .. MaxNtOut
    /\ pc = "e_ready"
    /\ fault = "none"
    /\ dk = Unset
    /\ paths = mesh_paths(Nk1)
    /\ Nk2_idx = 0
    /\ kpath = <<>>
    /\ ecv_in_path = <<>>
    /\ dipole_in_path = <<>>
    /\ A_in_path = <<>>
    /\ y0 = <<>>
    /\ solver_y = <<>>
    /\ solver_t = R(0)
    /\ solver_ok = TRUE
    /\ ti = 0
    /\ t_idx = 0
    /\ t_constructed = TRUE
    /\ t = <<>>
    /\ \E seed \in 0 .. NumSeeds - 1 :
          /\ solution = SolutionTensor(seed, Nk1, NtOut)
          /\ A_field = VectorPotential(seed, NtOut)
    /\ x = <<>>
    /\ reads = {}
    /\ band_pole \in PoleChoices
    /\ I_exact_E_dir = <<>>
    /\ I_exact_ortho = <<>>
    /\ files = {}

\* one call emission_exact()
EEval ==
    /\ pc = "e_ready"
    /\ I_exact_E_dir' = emission_exact(E_dir, solution, A_field, R(0), band_pole)
    /\ I_exact_ortho' = emission_exact(E_ort, solution, A_field, R(0), band_pole)
    /\ pc' = "e_done"
    /\ UNCHANGED <<params_vars, fault, dk, paths, Nk2_idx, path_vars, solver_vars, ti,
                   t_idx, t_constructed, out_vars, x, reads, band_pole, files>>

NextE == EEval

SpecE == InitE /\ [][NextE]_vars

(***************************************************************************)
(* The equations of the specification, on scalars.                         *)
(***************************************************************************)
Eq_fv(wr, pvc, grad, fv, fv0) ==
    CSub(CAdd(CMul(R(2), CImag(CMul(wr, pvc))), grad), CMul(gamma1, CSub(fv, fv0)))

Eq_pvc(ecv, wr_diag, wr, pvc, fv, fc, grad) ==
    CAdd(CSub(CMul(CAdd(CSub(CMul(J1, ecv), gamma2), CMul(J1, wr_diag)), pvc),
              CMul(CMul(J1, CConj(wr)), CSub(fv, fc))),
         grad)

Eq_fc(wr, pvc, grad, fc, fc0) ==
    CSub(CAdd(CNeg(CMul(R(2), CImag(CMul(wr, pvc)))), grad), CMul(gamma1, CSub(fc, fc0)))

\* component c of k-point k of a state vector
Comp(y, k, c) == y[4 * k + c]

\* the field and the gradient coefficient at the time of the evaluation
FieldNow == electric_field(solver_t)

DNow == CDivR(FieldNow, CMul(R(2), dk))

\* D*(y[m] - y[n]) for component c with the periodic neighbours of k
Gradient(y, k, c, n) ==
    CMul(DNow, CSub(Comp(y, (k + 1) % n, c), Comp(y, (k - 1) % n, c)))

\* the band model at the k-point k of the path shifted by a along E_dir
ShiftedKx(k, a) == CAdd(kpath[k][1], CMul(R(E_dir[1]), a))

ShiftedKy(k, a) == CAdd(kpath[k][2], CMul(R(E_dir[2]), a))

BandEcv(kx, ky) == CSub(ecf(kx, ky), evf(kx, ky))

BandDipole(kx, ky) ==
    CAdd(CMul(R(E_dir[1]), di_01xf(kx, ky)), CMul(R(E_dir[2]), di_01yf(kx, ky)))

BandDiag(kx, ky) ==
    CSub(CAdd(CMul(R(E_dir[1]), di_00xf(kx, ky)), CMul(R(E_dir[2]), di_00yf(kx, ky))),
         CAdd(CMul(R(E_dir[1]), di_11xf(kx, ky)), CMul(R(E_dir[2]), di_11yf(kx, ky))))

\* the accumulated vector potential of the evaluated state
ANow == CReal(solver_y[size(solver_y) - 1])

\* f has returned from a call with a path and arrays of one length
Evaluated == pc = "f_done" /\ ArgsMatch

\* f has returned
Returned == pc = "f_done"

\* values used to perturb single entries of a state vector or of an array
Perturbations == {R(5), Cx(1, -4, 3)}

(***************************************************************************)
(* C1: for every path of N >= 2 points, every k and every state vector,    *)
(* the length-gauge right-hand side returns the four equations of the      *)
(* specification with the periodic neighbours m = (k+1) mod N and          *)
(* n = (k-1) mod N, D = E(t)/(2 dk), wr = dipole[k] E(t),                  *)
(* wr_diag = diagdip[k] E(t) and the initial populations as targets.       *)
(***************************************************************************)
C1_LengthGaugeEquations ==
    (Evaluated /\ gauge = "length" /\ Nk1 >= 2) =>
        \A k \in 0 .. Nk1 - 1 :
            LET wr == CMul(dipole_in_path[k], FieldNow)
                wr_diag == CMul(A_in_path[k], FieldNow)
                fv == Comp(solver_y, k, 0)
                pvc == Comp(solver_y, k, 1)
                fc == Comp(solver_y, k, 3)
            IN  /\ Comp(x, k, 0) = Eq_fv(wr, pvc, Gradient(solver_y, k, 0, Nk1), fv,
                                         Comp(y0, k, 0))
                /\ Comp(x, k, 1) = Eq_pvc(ecv_in_path[k], wr_diag, wr, pvc, fv, fc,
                                          Gradient(solver_y, k, 1, Nk1))
                /\ Comp(x, k, 2) = CConj(Comp(x, k, 1))
                /\ Comp(x, k, 3) = Eq_fc(wr, pvc, Gradient(solver_y, k, 3, Nk1), fc,
                                         Comp(y0, k, 3))

\* a length-gauge evaluation on three points with a field, a non-zero
\* gradient across the wrap-around and a non-zero coherence derivative
C1_Witness ==
    /\ Evaluated /\ gauge = "length" /\ Nk1 = 3
    /\ FieldNow # R(0)
    /\ Gradient(solver_y, 0, 0, Nk1) # R(0)
    /\ Gradient(solver_y, 2, 1, Nk1) # R(0)
    /\ Comp(x, 1, 1) # R(0)

(***************************************************************************)
(* C2: for every path length N and every k in 0..N-1 the neighbour indices *)
(* of the length-gauge right-hand side are m = (k+1) mod N and             *)
(* n = (k-1) mod N.                                                        *)
(***************************************************************************)
C2_NeighboursAreModular ==
    (Evaluated /\ gauge = "length") =>
        \A k \in 0 .. Nk1 - 1 :
            /\ flength_m(k, size(kpath)) = 4 * ((k + 1) % Nk1)
            /\ flength_n(k, size(kpath)) = 4 * ((k - 1) % Nk1)

(***************************************************************************)
(* C3: for a path of a single k-point, setting up the path and evaluating  *)
(* the length-gauge right-hand side divides by no zero and reads only      *)
(* indices of y that hold a density-matrix component of the path.          *)
(***************************************************************************)
C3_SinglePointDoesNotFault ==
    (gauge = "length" /\ Nk1 = 1) =>
        /\ fault = "none"
        /\ Evaluated => reads \subseteq 0 .. 4 * Nk1 - 1

(***************************************************************************)
(* C4: in velocity gauge the right-hand side at k is the length-gauge      *)
(* update without the gradient term, and it depends on the state at no     *)
(* other k-index.                                                          *)
(***************************************************************************)
C4_VelocityIsLocal ==
    (Evaluated /\ gauge = "velocity") =>
        \A k \in 0 .. Nk1 - 1 :
            LET kx == ShiftedKx(k, ANow)
                ky == ShiftedKy(k, ANow)
                used_dipole == IF dipole_off THEN R(0) ELSE BandDipole(kx, ky)
                used_diag == IF dipole_off THEN R(0) ELSE BandDiag(kx, ky)
                \* what the length-gauge function returns for the same
                \* coefficients, gradient term included
                len == flength(solver_t, solver_y, kpath, dk,
                               [j \in DOMAIN kpath |-> BandEcv(ShiftedKx(j, ANow), ShiftedKy(j, ANow))],
                               [j \in DOMAIN kpath |-> used_dipole],
                               [j \in DOMAIN kpath |-> used_diag],
                               y0, R(0))
            IN  /\ Nk1 >= 2 =>
                     \A c \in 0 .. 3 :
                        Comp(x, k, c) =
                            CSub(Comp(len, k, c),
                                 IF c = 2 THEN CConj(Gradient(solver_y, k, 1, Nk1))
                                 ELSE Gradient(solver_y, k, c, Nk1))
                /\ \A j \in 0 .. 4 * Nk1 - 1 : \A v \in Perturbations :
                     (j \div 4) # k =>
                        \A c \in 0 .. 3 :
                            f(solver_t, [solver_y EXCEPT ![j] = v], kpath, dk, ecv_in_path,
                              dipole_in_path, A_in_path, y0, R(0))[4 * k + c] = Comp(x, k, c)

\* a velocity-gauge evaluation with a field on a state whose neighbours
\* differ, so that a gradient term would have changed the result
C4_Witness ==
    /\ Evaluated /\ gauge = "velocity" /\ Nk1 = 3
    /\ FieldNow # R(0)
    /\ Gradient(solver_y, 1, 0, Nk1) # R(0)
    /\ Gradient(solver_y, 1, 1, Nk1) # R(0)
    /\ Comp(x, 1, 1) # R(0)
(***************************************************************************)
(* C5: in velocity gauge every evaluation uses the transition energy and   *)
(* the dipole coefficients of the band model at the path shifted by the    *)
(* accumulated vector potential along the field direction, and not the     *)
(* arrays handed over at path construction; in length gauge the arrays     *)
(* handed over are used as they are.                                       *)
(***************************************************************************)
\* the velocity-gauge result at k for given dipole coefficients
VelocityAt(k, dipole_k, diag_k) ==
    LET kx == ShiftedKx(k, ANow)
        ky == ShiftedKy(k, ANow)
        wr == CMul(dipole_k, FieldNow)
        wr_diag == CMul(diag_k, FieldNow)
        fv == Comp(solver_y, k, 0)
        pvc == Comp(solver_y, k, 1)
        fc == Comp(solver_y, k, 3)
    IN  /\ Comp(x, k, 0) = Eq_fv(wr, pvc, R(0), fv, Comp(y0, k, 0))
        /\ Comp(x, k, 1) = Eq_pvc(BandEcv(kx, ky), wr_diag, wr, pvc, fv, fc, R(0))
        /\ Comp(x, k, 3) = Eq_fc(wr, pvc, R(0), fc, Comp(y0, k, 3))

\* the arrays handed over do not enter a velocity-gauge evaluation
PassedArraysUnused ==
    \A k \in 0 .. Nk1 - 1 : \A v \in Perturbations :
        f(solver_t, solver_y, kpath, dk, [ecv_in_path EXCEPT ![k] = v],
          [dipole_in_path EXCEPT ![k] = v], [A_in_path EXCEPT ![k] = v], y0, R(0)) = x

\* the arrays handed over are what a length-gauge evaluation uses, whatever
\* the accumulated vector potential (for a single point the neighbour read
\* past the end of y is some value g)
PassedArraysUsed ==
    /\ \A k \in 0 .. Nk1 - 1 :
          LET wr == CMul(dipole_in_path[k], FieldNow)
              wr_diag == CMul(A_in_path[k], FieldNow)
              fv == Comp(solver_y, k, 0)
              pvc == Comp(solver_y, k, 1)
              fc == Comp(solver_y, k, 3)
          IN  IF Nk1 >= 2
              THEN Comp(x, k, 1) = Eq_pvc(ecv_in_path[k], wr_diag, wr, pvc, fv, fc,
                                          Gradient(solver_y, k, 1, Nk1))
              ELSE \E g \in Garbage :
                      Comp(x, k, 1) = Eq_pvc(ecv_in_path[k], wr_diag, wr, pvc, fv, fc,
                                             CMul(DNow, CSub(g, pvc)))
    /\ Nk1 >= 2 =>
          \A v \in {R(5), R(-2)} :
              f(solver_t, [solver_y EXCEPT ![4 * Nk1] = v], kpath, dk, ecv_in_path,
                dipole_in_path, A_in_path, y0, R(0)) = x

\* the claim as stated: the dipole coefficients are always re-evaluated
C5_CoefficientsReevaluated ==
    /\ (Evaluated /\ gauge = "velocity") =>
          /\ \A k \in 0 .. Nk1 - 1 :
                VelocityAt(k, BandDipole(ShiftedKx(k, ANow), ShiftedKy(k, ANow)),
                           BandDiag(ShiftedKx(k, ANow), ShiftedKy(k, ANow)))
          /\ PassedArraysUnused
    /\ (Evaluated /\ gauge = "length") => PassedArraysUsed

\* amended: with dipole_off set the dipole coefficients are zero
C5_CoefficientsReevaluatedUnlessOff ==
    /\ (Evaluated /\ gauge = "velocity") =>
          /\ \A k \in 0 .. Nk1 - 1 :
                VelocityAt(k,
                    IF dipole_off THEN R(0)
                    ELSE BandDipole(ShiftedKx(k, ANow), ShiftedKy(k, ANow)),
                    IF dipole_off THEN R(0)
                    ELSE BandDiag(ShiftedKx(k, ANow), ShiftedKy(k, ANow)))
          /\ PassedArraysUnused
    /\ (Evaluated /\ gauge = "length") => PassedArraysUsed

\* a velocity-gauge evaluation with the dipoles on, a field and a non-zero
\* vector potential, where the arrays handed over differ from the band
\* model at the shifted path
C5_Witness ==
    /\ Evaluated /\ gauge = "velocity" /\ ~dipole_off /\ Nk1 >= 2
    /\ FieldNow # R(0) /\ ANow # R(0)
    /\ ecv_in_path[0] # BandEcv(ShiftedKx(0, ANow), ShiftedKy(0, ANow))
    /\ dipole_in_path[0] # BandDipole(ShiftedKx(0, ANow), ShiftedKy(0, ANow))
    /\ BandEcv(kpath[0][1], kpath[0][2]) # BandEcv(ShiftedKx(0, ANow), ShiftedKy(0, ANow))
    /\ Comp(x, 0, 1) # R(0)
(***************************************************************************)
(* Runs of main over a wider range of time grids: Nf integration steps     *)
(* asked for and params.Nt output samples, on two paths of two k-points.   *)
(***************************************************************************)
MaxGridNf == 3

MaxGridNt == 3

\* <<E0, phase>> of a grid run: the carrier a quarter turn ahead, which is
\* not zero on the time grids of an even number of steps; both carriers and
\* a second amplitude where the dipoles are switched off in velocity gauge
GridFieldChoices ==
    IF dipole_off /\ gauge = "velocity"
    THEN {<<R(1), 0>>, <<R(1), 1>>, <<R(2), 1>>}
    ELSE {<<R(1), 1>>}

InitGrid ==
    /\ gauge \in Gauges
    /\ band_pole = <<>>
    /\ I_exact_E_dir = <<>>
    /\ I_exact_ortho = <<>>
    /\ files = {}
    /\ E_dir \in Directions
    /\ dipole_off \in BOOLEAN
    /\ \E fc \in GridFieldChoices : E0 = fc[1] /\ phase = fc[2]
    /\ save_file = TRUE /\ save_full = TRUE
    /\ gamma1 = Q(1, 2)
    /\ gamma2 = R(1)
    /\ e_fermi = R(2) /\ temperature = Q(1, 1000)
    /\ BZ_type = "2line"
    /\ Nk2 = 2
    /\ align = "None"
    /\ Nk1 = 2
    /\ length_path_in_BZ = PathLength(Nk1)
    /\ Nf \in 1 .. MaxGridNf
    /\ NtOut \in 1 .. MaxGridNt
    /\ pc = "setup"
    /\ fault = "none"
    /\ dk = Unset
    /\ paths = <<>>
    /\ Nk2_idx = 0
    /\ kpath = <<>>
    /\ ecv_in_path = <<>>
    /\ dipole_in_path = <<>>
    /\ A_in_path = <<>>
    /\ y0 = <<>>
    /\ solver_y = <<>>
    /\ solver_t = R(0)
    /\ solver_ok = TRUE
    /\ ti = 0
    /\ t_idx = 0
    /\ t_constructed = FALSE
    /\ t = <<>>
    /\ solution = <<>>
    /\ A_field = <<>>
    /\ x = <<>>
    /\ reads = {}

SpecGrid == InitGrid /\ [][Next]_vars

(***************************************************************************)
(* main over the meshes of both zone types: the full zone with either      *)
(* alignment and Nk1 x Nk2 points, and the two lines.  For the full zone    *)
(* the run is in the length gauge with the dipoles switched off, where no   *)
(* line that is executed reads E_dir.                                       *)
(***************************************************************************)
MaxMeshNk1 == 3

MaxMeshNk2 == 4

\* <<BZ_type, align, Nk2>>: lines 59-72
MeshChoices ==
    {<<"full", al, n2>> : al \in {"K", "M"}, n2 \in 0 .. MaxMeshNk2}
        \cup {<<"2line", "None", 2>>}

\* E_dir of lines 90-97; the components for align 'M', cos(-30 deg) and
\* sin(-30 deg), are irrational and are held by name
MeshDirections(bz, al) ==
    IF bz = "2line" THEN Directions
    ELSE IF al = "K" THEN {<<1, 0>>}
    ELSE {<<"cos(-30)", "sin(-30)">>}

InitMesh ==
    /\ band_pole = <<>>
    /\ I_exact_E_dir = <<>>
    /\ I_exact_ortho = <<>>
    /\ files = {}
    /\ \E mc \in MeshChoices : BZ_type = mc[1] /\ align = mc[2] /\ Nk2 = mc[3]
    /\ E_dir \in MeshDirections(BZ_type, align)
    /\ gauge \in (IF BZ_type = "full" THEN {"length"} ELSE Gauges)
    /\ dipole_off \in (IF BZ_type = "full" THEN {TRUE} ELSE BOOLEAN)
    /\ E0 = R(1) /\ phase = 0
    /\ save_file = TRUE /\ save_full = TRUE
    /\ gamma1 = Q(1, 2)
    /\ gamma2 = R(1)
    /\ e_fermi = R(2) /\ temperature = Q(1, 1000)
    /\ Nk1 \in 0 .. MaxMeshNk1
    /\ length_path_in_BZ = PathLength(Nk1)
    /\ Nf = 1
    /\ NtOut \in 1 .. 2
    /\ pc = "setup"
    /\ fault = "none"
    /\ dk = Unset
    /\ paths = <<>>
    /\ Nk2_idx = 0
    /\ kpath = <<>>
    /\ ecv_in_path = <<>>
    /\ dipole_in_path = <<>>
    /\ A_in_path = <<>>
    /\ y0 = <<>>
    /\ solver_y = <<>>
    /\ solver_t = R(0)
    /\ solver_ok = TRUE
    /\ ti = 0
    /\ t_idx = 0
    /\ t_constructed = FALSE
    /\ t = <<>>
    /\ solution = <<>>
    /\ A_field = <<>>
    /\ x = <<>>
    /\ reads = {}

\* lines 87-191: the mesh, the containers and the loop over the paths
NextPaths == Setup \/ PathInit \/ Step \/ PathEnd

SpecMesh == InitMesh /\ [][NextPaths]_vars

\* main on '2line' up to the end of the loop over the paths (line 191)
SpecPaths == Init /\ [][NextPaths]_vars

(***************************************************************************)
(* The integrator within its tolerance.  solver.integrate (line 173) is    *)
(* the library's zvode with method 'bdf' and jac=None (line 115): an       *)
(* implicit step whose corrector is a chord iteration with a Jacobian      *)
(* taken by finite differences with real increments.  The right-hand side  *)
(* is not analytic in y (x[i+2] = x[i+1].conjugate()): the Jacobian row of *)
(* p_cv holds the conjugates of the row of p_vc, and a corrector iterate   *)
(* with the increment Delta of p_vc leaves                                 *)
(*     y[i+2] - conj(y[i+1]) = 2j*h*J[i+2][i+1]*Im(Delta).                 *)
(* A step returns the explicit step (the corrector has converged) or the   *)
(* explicit step with that difference from the first iterate.  Nothing     *)
(* else of the state is touched: the right-hand side never reads y[i+2].   *)
(* With the step dt = 1 of the runs the difference is not small; its size  *)
(* under the library's tolerance is not modelled.                          *)
(***************************************************************************)
\* f(t, y, *f_params) with the parameters the solver holds
zvode_rhs(tt, y) ==
    f(tt, y, kpath, dk, ecv_in_path, dipole_in_path, A_in_path, y0, R(0))

\* the Jacobian entry d f[row] / d y[col] by a finite difference with a real
\* increment; f is affine in the density-matrix entries, so that the
\* increment 1 gives the entry exactly
zvode_jac(tt, y, row, col) ==
    CSub(zvode_rhs(tt, [y EXCEPT ![col] = CAdd(@, R(1))])[row], zvode_rhs(tt, y)[row])

\* the Jacobian entries d f[p_cv] / d y[p_vc] at the predicted state, one for
\* every k of the path
zvode_jac_cv(t1, yp) ==
    [k \in 0 .. size(kpath) - 1 |-> zvode_jac(t1, yp, 4 * k + 2, 4 * k + 1)]

\* the first increment of the corrector at the predicted state
\* yp = y + h*f(t, y): h*(f(t + h, yp) - f(t, y)), from xx = f(t, y) and
\* x1 = f(t + h, yp)
zvode_increment(xx, x1) == [j \in DOMAIN x1 |-> CMul(main_dt, CSub(x1[j], xx[j]))]

\* what that iterate leaves between p_cv and conj(p_vc) at k
zvode_asymmetry(jac, incr, k) ==
    CMul(CMul(Cx(0, 2, 1), main_dt), CMul(jac[k], CImag(incr[4 * k + 1])))

\* the explicit step yp with that difference in p_cv
zvode_iterate(yp, jac, incr) ==
    [j \in DOMAIN yp |->
        IF j < 4 * size(kpath) /\ j % 4 = 2
        THEN CAdd(yp[j], zvode_asymmetry(jac, incr, j \div 4))
        ELSE yp[j]]

\* lines 166-188: one pass of the propagation loop.  A step that succeeds
\* returns the explicit step (the corrector has converged) or the first
\* iterate of the corrector.
StepZvode ==
    /\ pc = "loop"
    /\ solver_ok /\ ti < main_Nt
    /\ \E ok \in BOOLEAN, converged \in BOOLEAN :
       \E xx \in {held_array(zvode_rhs(solver_t, solver_y))} :
       \E yp \in {held_array(integrate_y(solver_y, xx))} :
       \E x1 \in {held_array(zvode_rhs(CAdd(solver_t, main_dt), yp))} :
       \E jac \in {held_array(zvode_jac_cv(CAdd(solver_t, main_dt), yp))} :
       \E incr \in {held_array(zvode_increment(xx, x1))} :
          LET ynew == IF ~ok THEN solver_y
                      ELSE IF converged THEN yp
                      ELSE held_array(zvode_iterate(yp, jac, incr))
              tnew == IF ok THEN CAdd(solver_t, main_dt) ELSE solver_t
          IN  /\ x' = xx
              /\ reads' = f_reads(solver_y, size(kpath))
              /\ solver_y' = ynew
              /\ solver_t' = tnew
              /\ solver_ok' = ok
              /\ IF ti % main_dt_out = 0
                 THEN /\ solution' = [k \in DOMAIN solution |->
                                        [solution[k] EXCEPT ![save_path][t_idx] =
                                            [c \in 0 .. 3 |-> reshape_Nk1_4(ynew, k, c)]]]
                      /\ IF construct_t
                         THEN /\ t' = [t EXCEPT ![t_idx] = tnew]
                              /\ A_field' = [A_field EXCEPT ![t_idx] =
                                                ynew[size(ynew) - 1]]
                         ELSE UNCHANGED <<t, A_field>>
                      /\ t_idx' = t_idx + 1
                 ELSE UNCHANGED <<out_vars, t_idx>>
              /\ ti' = ti + 1
    /\ UNCHANGED <<params_vars, pc, fault, dk, paths, Nk2_idx, path_vars, t_constructed,
                   obs_vars>>

NextZvode == Setup \/ PathInit \/ StepZvode \/ PathEnd

\* requested integration steps and output samples of the runs with the
\* integrator's tolerance
MaxZvodeNf == 2

MaxZvodeNt == 2

InitZvode == InitGrid /\ Nf <= MaxZvodeNf /\ NtOut <= MaxZvodeNt

SpecZvode == InitZvode /\ [][NextZvode]_vars

(***************************************************************************)
(* Propagation: the state main has built for the path being propagated.    *)
(***************************************************************************)
InLoop == pc = "loop"

\* index of the vector-potential slot of the state vector
ASlot == 4 * Nk1

\* the time at which the last step evaluated the right-hand side
LastEvalTime == CAdd(main_t0, CMul(R(ti - 1), main_dt))

\* the initial state vector of path p
InitialState(p) ==
    np_append(initial_condition(e_fermi, temperature, main_ec(paths[p])), R(0))

(***************************************************************************)
(* C6: in both gauges the vector-potential component starts at 0 for every *)
(* path and its derivative is -E(t) at every evaluation, whatever the      *)
(* density-matrix components and the path.                                 *)
(***************************************************************************)
C6_VectorPotentialRate ==
    InLoop =>
        /\ ti = 0 => solver_y[ASlot] = R(0)
        /\ ti > 0 => x[ASlot] = CNeg(electric_field(LastEvalTime))
        /\ \A p \in DOMAIN paths : \A j \in 0 .. ASlot - 1 : \A v \in Perturbations :
              f(solver_t, [solver_y EXCEPT ![j] = v], paths[p], dk, ecv_in_path,
                dipole_in_path, A_in_path, y0, R(0))[ASlot] = CNeg(electric_field(solver_t))

\* the second path after a step with a field: the vector potential has moved
\* and its last derivative was not zero
C6_Witness ==
    /\ InLoop /\ Nk2_idx = 1 /\ ti > 0
    /\ x[ASlot] # R(0)
    /\ solver_y[ASlot] # R(0)

C8_NoFieldFixedPoint ==
    E0 = R(0) =>
        /\ InLoop =>
              /\ solver_y = InitialState(Nk2_idx)
              /\ ti > 0 => \A j \in DOMAIN x : x[j] = R(0)
        /\ \A k \in DOMAIN solution : \A p \in DOMAIN solution[k] :
              \A s \in DOMAIN solution[k][p] : \A c \in 0 .. 3 :
                  \/ solution[k][p][s][c] = Unset
                  \/ solution[k][p][s][c] = InitialState(p)[4 * k + c]
        /\ \A s \in DOMAIN A_field : A_field[s] \in {Unset, R(0)}

\* a finished length-gauge run without field on three points with a
\* Fermi-Dirac occupation that varies along the path
C8_Witness ==
    /\ E0 = R(0) /\ pc = "observables" /\ gauge = "length" /\ Nk1 = 3
    /\ solver_ok /\ ti = main_Nt /\ ti >= 2
    /\ solution[0][1][NtOut - 1][3] # Unset
    /\ solution[0][1][NtOut - 1][3] # solution[1][1][NtOut - 1][3]

(***************************************************************************)
(* C9: above the temperature cut the initial state of a path of N points   *)
(* has 4 N density-matrix entries, (1, 0, 0, FermiDirac(e_c[k])) at the    *)
(* flat indices 4k .. 4k+3.                                                *)
(***************************************************************************)
C9_InitialStateLayout ==
    (InLoop /\ RLess(temperature_cut, temperature)) =>
        /\ size(y0) = 4 * Nk1 + 1
        /\ ti = 0 => solver_y = y0
        /\ \A k \in 0 .. Nk1 - 1 :
              /\ y0[4 * k] = R(1)
              /\ y0[4 * k + 1] = R(0)
              /\ y0[4 * k + 2] = R(0)
              /\ y0[4 * k + 3] =
                    float_recip_1p(np_exp(CDivR(CSub(ecf(kpath[k][1], kpath[k][2]), e_fermi),
                                                temperature)))

\* a path of three points whose conduction occupations differ
C9_Witness ==
    /\ InLoop /\ RLess(temperature_cut, temperature) /\ Nk1 = 3 /\ ti = 0
    /\ y0[3] # y0[7]
    /\ y0[3] # R(0)

(***************************************************************************)
(* C10: at or below the temperature cut the initial state has 4 N entries  *)
(* with f_v = 1, coherences 0 and f_c(k) = 1 exactly where e_c[k] is below *)
(* the Fermi level and 0 elsewhere.                                        *)
(***************************************************************************)
C10_StepOccupation ==
    (~RLess(temperature_cut, temperature) /\ pc \notin {"setup", "path_init"}
        /\ fault # "ZeroDivisionError") =>
        /\ pc # "error"
        /\ size(y0) = 4 * Nk1 + 1
        /\ \A k \in 0 .. Nk1 - 1 :
              /\ y0[4 * k] = R(1)
              /\ y0[4 * k + 1] = R(0)
              /\ y0[4 * k + 2] = R(0)
              /\ y0[4 * k + 3] =
                    IF RLess(ecf(kpath[k][1], kpath[k][2]), e_fermi) THEN R(1) ELSE R(0)
(***************************************************************************)
(* The run as a whole: samples, failures, set-up errors.                   *)
(***************************************************************************)
\* the number of samples recorded for path p
Recorded(p) ==
    IF solution = <<>> THEN 0
    ELSE Cardinality({s \in 0 .. NtOut - 1 : solution[0][p][s][0] # Unset})

\* main is past the propagation of all paths
PastPropagation == pc \in {"observables", "save", "done"}

\* path p was left by a failed integrator
FailedPath(p) ==
    \/ p = Nk2_idx /\ InLoop /\ ~solver_ok
    \/ p < Nk2_idx /\ Recorded(p) < NtOut

(***************************************************************************)
(* C11: samples are recorded exactly at the step indices ti with           *)
(* ti mod stride = 0, the stride being one integer for the whole run, and  *)
(* after the run every path has the same number of recorded samples.       *)
(***************************************************************************)
C11_SamplesAtStride ==
    /\ InLoop =>
          /\ t_idx = (ti + main_dt_out - 1) \div main_dt_out
          /\ Recorded(Nk2_idx) = t_idx
    /\ PastPropagation =>
          \A p, q \in DOMAIN paths : Recorded(p) = Recorded(q)

(***************************************************************************)
(* C12: if the integrator reports failure at a step of a path, the         *)
(* propagation of that path ends with a raised error; no path is left      *)
(* with fewer samples without an error.                                    *)
(***************************************************************************)
C12_FailureRaises ==
    /\ ~solver_ok => pc \in {"loop", "error"}
    /\ \A p \in DOMAIN paths : (p < Nk2_idx /\ Recorded(p) < NtOut) => pc = "error"

(***************************************************************************)
(* C13: if the integrator fails on a path, no later path is propagated     *)
(* and no emission series and no output file is computed or written.       *)
(***************************************************************************)
C13_FailureAbortsRun ==
    \A p \in DOMAIN paths :
        FailedPath(p) =>
            /\ \A q \in DOMAIN paths : q > p => (Recorded(q) = 0 /\ Nk2_idx < q)
            /\ I_exact_E_dir = <<>> /\ I_exact_ortho = <<>>
            /\ files = {}

(***************************************************************************)
(* C14: a gauge other than 'length' or 'velocity' raises an error at       *)
(* set-up: no integrator state exists, no path is propagated and nothing   *)
(* is written.                                                             *)
(***************************************************************************)
C14_InvalidGaugeRejected ==
    gauge \notin {"length", "velocity"} =>
        /\ pc \in {"setup", "error"}
        /\ pc = "error" => fault \in {"AttributeError", "ZeroDivisionError"}
        /\ (pc = "error" /\ ~mesh_faults(Nk1)) => fault = "AttributeError"
        /\ solver_y = <<>> /\ kpath = <<>> /\ y0 = <<>> /\ ti = 0 /\ x = <<>>
        /\ \A p \in DOMAIN paths : Recorded(p) = 0
        /\ I_exact_E_dir = <<>> /\ I_exact_ortho = <<>>
        /\ files = {}

\* the error raised by make_fnumba for a run that has a mesh
C14_Witness ==
    /\ gauge = "coulomb" /\ pc = "error" /\ fault = "AttributeError"
    /\ Nk1 = 3 /\ paths # <<>>
(***************************************************************************)
(* C15: a path whose number of k-points differs from the length of its     *)
(* coefficient arrays or from the k dimension of the solution tensor, and  *)
(* a path without k-points, are rejected with an error at setup, before    *)
(* any integration step of the path: a run asked for paths of no k-points  *)
(* ends at the mesh with ZeroDivisionError, with no path, no solution      *)
(* tensor, no initial state and no evaluation of the right-hand side; and  *)
(* every path that reaches the propagation loop has at least one k-point   *)
(* and coefficient arrays, a solution tensor and a state vector of its     *)
(* length.                                                                 *)
(***************************************************************************)
C15_MismatchRejected ==
    /\ Nk1 = 0 =>
          /\ pc \in {"setup", "error"}
          /\ pc = "error" => fault = "ZeroDivisionError"
          /\ paths = <<>> /\ solution = <<>>
          /\ kpath = <<>> /\ y0 = <<>> /\ solver_y = <<>> /\ x = <<>>
          /\ ti = 0 /\ t_idx = 0
    /\ InLoop =>
          /\ ArgsMatch
          /\ kpath = paths[Nk2_idx]
          /\ size(kpath) = size(solution)
          /\ size(solver_y) = 4 * size(kpath) + 1

\* a run of the full zone asked for paths of no k-points has ended at the
\* mesh
C15_Witness ==
    /\ Nk1 = 0 /\ Nk2 = 2 /\ BZ_type = "full"
    /\ pc = "error" /\ fault = "ZeroDivisionError"
    /\ solver_y = <<>>

(***************************************************************************)
(* The emission.                                                           *)
(***************************************************************************)
Emitted == pc = "e_done"

\* entry (a, b) of U_h (dH/dk along dir) U at (kx, ky), as a double sum
TransformedDerivative(dir, kx, ky, a, b) ==
    LET term(i, j) == CMul(CMul(Umat_h(kx, ky)[a][i], h_deriv_dir(dir, kx, ky)[i][j]),
                           Umat(kx, ky)[j][b])
    IN  CAdd(CAdd(term(0, 0), term(0, 1)), CAdd(term(1, 0), term(1, 1)))

\* the k-point of path p shifted by the recorded vector potential along the
\* field in velocity gauge, unshifted in length gauge
EmissionPoint(p, k, s) ==
    IF gauge = "velocity"
    THEN <<CAdd(paths[p][k][1], CMul(A_field[s], R(E_dir[1]))),
           CAdd(paths[p][k][2], CMul(A_field[s], R(E_dir[2])))>>
    ELSE paths[p][k]

\* the contribution of one k-point of one path at one time index
Contribution(dir, p, k, s) ==
    LET kk == EmissionPoint(p, k, s)
        shift == IF gauge = "velocity" THEN R(1) ELSE R(0)
        fv == solution[k][p][s][0]
        pcv == solution[k][p][s][2]
        fc == solution[k][p][s][3]
    IN  CAdd(CAdd(CMul(CReal(TransformedDerivative(dir, kk[1], kk[2], 0, 0)),
                       CSub(CReal(fv), shift)),
                  CMul(CReal(TransformedDerivative(dir, kk[1], kk[2], 1, 1)), CReal(fc))),
             CMul(R(2), CReal(CMul(TransformedDerivative(dir, kk[1], kk[2], 0, 1), pcv))))

\* the sum over the k-points 0 .. n-1 of path p
RECURSIVE SumOverK(_, _, _, _)
SumOverK(dir, p, n, s) ==
    IF n = 0 THEN R(0) ELSE CAdd(Contribution(dir, p, n - 1, s), SumOverK(dir, p, n - 1, s))

\* the sum over the paths 0 .. n-1
RECURSIVE SumOverPaths(_, _, _)
SumOverPaths(dir, n, s) ==
    IF n = 0 THEN R(0) ELSE CAdd(SumOverK(dir, n - 1, Nk1, s), SumOverPaths(dir, n - 1, s))

(***************************************************************************)
(* C16: for every output time index each emission series is the sum over   *)
(* all paths and k-points of Re(M00)(Re f_v - shift) + Re(M11) Re f_c      *)
(* + 2 Re(M01 p_cv) with M = U_h (dH/dk along the direction) U at the      *)
(* k-point shifted by A(t) in velocity gauge, shift = 1 in velocity and 0  *)
(* in length gauge; both series have one entry per output sample.          *)
(***************************************************************************)
C16_EmissionFormula ==
    (Emitted /\ band_pole = <<>>) =>
        /\ DOMAIN I_exact_E_dir = 0 .. NtOut - 1
        /\ DOMAIN I_exact_ortho = 0 .. NtOut - 1
        /\ \A s \in 0 .. NtOut - 1 :
              /\ I_exact_E_dir[s] = SumOverPaths(E_dir, size(paths), s)
              /\ I_exact_ortho[s] = SumOverPaths(E_ort, size(paths), s)

\* a velocity-gauge emission on three points and two samples with a
\* vector potential that moves the k-points, the two series and the two
\* samples being different
C16_Witness ==
    /\ Emitted /\ band_pole = <<>> /\ gauge = "velocity" /\ Nk1 = 3 /\ NtOut >= 2
    /\ A_field[1] # R(0)
    /\ EmissionPoint(0, 0, 1) # paths[0][0]
    /\ I_exact_E_dir[0] # I_exact_E_dir[1]
    /\ I_exact_E_dir[1] # I_exact_ortho[1]
    /\ I_exact_ortho[1] # R(0)

(***************************************************************************)
(* C17: the emission at time index t depends only on the solution entries  *)
(* and the vector potential at time index t, and it is the same for every  *)
(* order of accumulation over paths and k-points and for partial sums      *)
(* combined at the end.                                                    *)
(***************************************************************************)
\* the tensor and the vector potential with every other time index overwritten
OtherTimesSet(s, v) ==
    [k \in DOMAIN solution |-> [p \in DOMAIN solution[k] |->
        [s2 \in DOMAIN solution[k][p] |->
            IF s2 = s THEN solution[k][p][s2] ELSE [c \in 0 .. 3 |-> v]]]]

OtherPotentialsSet(s, v) == [s2 \in DOMAIN A_field |-> IF s2 = s THEN A_field[s2] ELSE v]

NumTerms == size(paths) * Nk1

\* other orders of accumulation: backwards, k-points outermost, rotated
Reorderings ==
    { [n \in 1 .. NumTerms |-> emission_order[NumTerms + 1 - n]],
      [n \in 1 .. NumTerms |-> <<(n - 1) % size(paths), (n - 1) \div size(paths)>>],
      [n \in 1 .. NumTerms |-> emission_order[(n % NumTerms) + 1]] }

\* the accumulation of the entries from .. NumTerms of the code's order
TailSum(dir, from, s) ==
    emission_accumulate([n \in 1 .. NumTerms - from + 1 |-> emission_order[n + from - 1]],
                        NumTerms - from + 1, dir, solution, A_field, s, R(0), band_pole)

C17_EmissionIsLocalReduction ==
    Emitted =>
        \A s \in 0 .. NtOut - 1 : \A dir \in {E_dir, E_ort} :
            LET value == IF dir = E_dir THEN I_exact_E_dir[s] ELSE I_exact_ortho[s]
            IN  /\ \A v \in Perturbations :
                      emission_accumulate(emission_order, NumTerms, dir, OtherTimesSet(s, v),
                                          OtherPotentialsSet(s, v), s, R(0), band_pole) = value
                /\ \A ord \in Reorderings :
                      emission_accumulate(ord, NumTerms, dir, solution, A_field, s, R(0),
                                          band_pole) = value
                /\ \A h \in 0 .. NumTerms :
                      FAdd(emission_accumulate(emission_order, h, dir, solution, A_field, s,
                                               R(0), band_pole),
                           TailSum(dir, h + 1, s)) = value

\* an emission over several samples whose terms differ from one another
C17_Witness ==
    /\ Emitted /\ band_pole = <<>> /\ gauge = "velocity" /\ Nk1 = 3 /\ NtOut >= 2
    /\ emission_term(E_dir, solution, A_field, 1, 0, 0, R(0), band_pole)
          # emission_term(E_dir, solution, A_field, 1, 1, 2, R(0), band_pole)
    /\ emission_term(E_dir, solution, A_field, 1, 0, 1, R(0), band_pole) # R(0)
    /\ A_field[0] # A_field[1]
    /\ I_exact_E_dir[1] # R(0)

(***************************************************************************)
(* C18: if the band model returns a non-finite value for some time index   *)
(* and k-point, the emission ends with an error; it returns no series in   *)
(* which that sample is zero or non-finite.                                *)
(***************************************************************************)
C18_NonFiniteIsFatal ==
    (\E s \in 0 .. NtOut - 1 : \E p \in DOMAIN paths : \E k \in 0 .. Nk1 - 1 :
        band_pole = emission_k(A_field, s, p, k, R(0)))
    => (~Emitted /\ I_exact_E_dir = <<>> /\ I_exact_ortho = <<>>)
(***************************************************************************)
(* C19: propagating the path with index j writes, of the solution tensor,  *)
(* only entries solution[:, j, :, :]; the entries of every other path      *)
(* index are left as they were.                                            *)
(***************************************************************************)
C19_WritesOwnSlice ==
    [][\A k \in DOMAIN solution : \A p \in DOMAIN solution[k] :
          p # Nk2_idx => solution'[k][p] = solution[k][p]]_vars

\* the second path has recorded a sample and the samples of the first are
\* all there, different from those of the second
C19_Witness ==
    /\ InLoop /\ Nk2_idx = 1 /\ t_idx >= 1 /\ NtOut >= 2
    /\ Recorded(0) = NtOut
    /\ solution[0][0][0] # solution[0][1][0]
    /\ solution[0][0][1] # Unset
(***************************************************************************)
(* The paths one after another, every step succeeding.                     *)
(***************************************************************************)
\* the state vector of path p after n steps
RECURSIVE SequentialState(_, _)
SequentialState(p, n) ==
    IF n = 0 THEN InitialState(p)
    ELSE LET prev == held_array(SequentialState(p, n - 1))
         IN  integrate_y(prev,
                 f(CAdd(main_t0, CMul(R(n - 1), main_dt)), prev, paths[p], dk,
                   held_array(main_ecv_in_path(paths[p])),
                   held_array(main_dipole_in_path(paths[p])),
                   held_array(main_A_in_path(paths[p])),
                   held_array(InitialState(p)), R(0)))

\* main is in the body of the path loop, in the run of path p
InRunOf(p) == pc \in {"path_init", "loop"} /\ Nk2_idx = p

\* the slices of the solution tensor that belong to the paths other than p
OtherSlices(sol, p) ==
    [k \in DOMAIN sol |-> [q \in DOMAIN sol[k] \ {p} |-> sol[k][q]]]

(***************************************************************************)
(* C20: the runs of the paths share no mutable state but their own slices  *)
(* of the solution tensor: no step of the run of a later path changes what *)
(* the run of an earlier path has set (the integrator's state, time and    *)
(* success flag, its parameters, the time axis, the recorded vector        *)
(* potential, the flag of the time axis, the slices of the other paths).   *)
(* main runs the paths one after another in one loop; it has no tasks.     *)
(***************************************************************************)
C20_RunsShareOnlySlices ==
    [][\A p \in 1 .. Nk2 - 1 : InRunOf(p) =>
          /\ UNCHANGED <<solver_vars, path_vars, t, A_field, t_constructed>>
          /\ OtherSlices(solution', p) = OtherSlices(solution, p)]_vars

(***************************************************************************)
(* C21: every path starts its propagation at t0 from its own initial       *)
(* condition with vector potential 0, whatever time and state the shared   *)
(* integrator was left in by the path before: at the head of the loop the  *)
(* integrator holds t0 and the path's initial state, and the first         *)
(* evaluation of the right-hand side is the one at (t0, initial state).    *)
(***************************************************************************)
C21_FreshStart ==
    /\ (InLoop /\ ti = 0) =>
          /\ solver_t = main_t0
          /\ solver_ok
          /\ kpath = paths[Nk2_idx]
          /\ y0 = InitialState(Nk2_idx)
          /\ solver_y = InitialState(Nk2_idx)
          /\ solver_y[ASlot] = R(0)
    /\ (InLoop /\ ti = 1) =>
          x = f(main_t0, InitialState(Nk2_idx), paths[Nk2_idx], dk,
                main_ecv_in_path(paths[Nk2_idx]), main_dipole_in_path(paths[Nk2_idx]),
                main_A_in_path(paths[Nk2_idx]), InitialState(Nk2_idx), R(0))

\* the first step of the second path, after a first path that ended at a
\* later time with a non-zero vector potential and non-zero coherences
C21_Witness ==
    /\ InLoop /\ Nk2_idx = 1 /\ ti = 1
    /\ Recorded(0) = NtOut
    /\ t[NtOut - 1] # main_t0
    /\ A_field[NtOut - 1] # R(0)
    /\ \E k \in 0 .. Nk1 - 1 : solution[k][0][NtOut - 1][1] # R(0)

(***************************************************************************)
(* Samples.                                                                *)
(***************************************************************************)
\* sample s of path p was recorded at a step that succeeded
SampleOfGoodStep(p, s) ==
    /\ solution # <<>>
    /\ \/ p < Nk2_idx /\ s + 1 < Recorded(p)
       \/ p = Nk2_idx /\ InLoop /\ s < t_idx /\ (solver_ok \/ s + 1 < t_idx)

\* the last pass of the loop recorded a sample
JustSampled == InLoop /\ ti > 0 /\ (ti - 1) % main_dt_out = 0

(***************************************************************************)
(* C23: the tensor entry solution[k, p, s, c] is the entry 4*k + c of the  *)
(* integrator state at the moment sample s of path p was taken; the        *)
(* tensor has Nk1 x 4 entries per sample, so the trailing                  *)
(* vector-potential entry of the state is never stored.                    *)
(***************************************************************************)
C23_SampleIsStateBlock ==
    /\ solution # <<>> =>
          /\ DOMAIN solution = 0 .. Nk1 - 1
          /\ \A k \in DOMAIN solution :
                /\ DOMAIN solution[k] = 0 .. 1
                /\ \A p \in 0 .. 1 :
                      /\ DOMAIN solution[k][p] = 0 .. NtOut - 1
                      /\ \A s \in 0 .. NtOut - 1 : DOMAIN solution[k][p][s] = 0 .. 3
    /\ JustSampled =>
          \A k \in 0 .. Nk1 - 1 : \A c \in 0 .. 3 :
              solution[k][Nk2_idx][t_idx - 1][c] = solver_y[4 * k + c]
    /\ \A p \in DOMAIN paths : \A s \in 0 .. NtOut - 1 :
          SampleOfGoodStep(p, s) =>
              LET state == SequentialState(p, s * main_dt_out + 1)
              IN  \A k \in 0 .. Nk1 - 1 : \A c \in 0 .. 3 :
                      solution[k][p][s][c] = state[4 * k + c]

\* the second sample of the second path, taken from a state with non-zero
\* coherences whose vector-potential entry differs from every stored entry of
\* the sample
C23_Witness ==
    /\ JustSampled /\ Nk2_idx = 1 /\ t_idx = 2 /\ solver_ok
    /\ SampleOfGoodStep(0, 0) /\ SampleOfGoodStep(1, 1)
    /\ solver_y[ASlot] # R(0)
    /\ \E k \in 0 .. Nk1 - 1 : solution[k][1][1][1].im # 0
    /\ \A k \in 0 .. Nk1 - 1 : \A c \in 0 .. 3 : solution[k][1][1][c] # solver_y[ASlot]

(***************************************************************************)
(* C24: within a path the integration time grows by dt at every pass of    *)
(* the loop, and sample s is taken after the step, at                      *)
(* t0 + (s*stride + 1)*dt: the recorded times are evenly spaced by         *)
(* stride*dt and t0 itself is never recorded.                              *)
(***************************************************************************)
C24_TimeAdvances ==
    /\ InLoop => solver_t = CAdd(main_t0, CMul(R(ti), main_dt))
    /\ \A s \in DOMAIN t :
          t[s] # Unset =>
              /\ t[s] = CAdd(main_t0, CMul(R(s * main_dt_out + 1), main_dt))
              /\ t[s] # main_t0

(***************************************************************************)
(* C25: for positive Nf and params.Nt the stride ceil(Nf/params.Nt) is at  *)
(* least 1 and stride*params.Nt at least Nf; the sample index of every     *)
(* write lies in 0 .. params.Nt - 1, the arrays keep their allocated       *)
(* shape, and a path whose steps all succeed records exactly params.Nt     *)
(* samples.                                                                *)
(***************************************************************************)
C25_SamplesFitArrays ==
    /\ main_dt_out >= 1
    /\ main_dt_out * NtOut >= Nf
    /\ (main_dt_out - 1) * NtOut < Nf
    /\ main_Nt = main_dt_out * NtOut
    /\ t # <<>> =>
          /\ DOMAIN t = 0 .. NtOut - 1
          /\ DOMAIN A_field = 0 .. NtOut - 1
          /\ \A k \in DOMAIN solution : \A p \in DOMAIN solution[k] :
                DOMAIN solution[k][p] = 0 .. NtOut - 1
    /\ InLoop =>
          /\ t_idx \in 0 .. NtOut
          /\ (solver_ok /\ ti < main_Nt /\ ti % main_dt_out = 0) => t_idx \in 0 .. NtOut - 1
          /\ JustSampled => t_idx - 1 \in 0 .. NtOut - 1
          /\ (solver_ok /\ ti = main_Nt) =>
                /\ t_idx = NtOut
                /\ Recorded(Nk2_idx) = NtOut
                /\ Nk2_idx = 0 =>
                      \A s \in 0 .. NtOut - 1 : t[s] # Unset /\ A_field[s] # Unset

\* the end of a path of four successful steps for three asked for, with
\* stride 2 and two samples
C25_Witness ==
    /\ InLoop /\ solver_ok /\ ti = main_Nt
    /\ Nf = 3 /\ NtOut = 2 /\ main_dt_out = 2 /\ ti = 4
    /\ Recorded(Nk2_idx) = 2

\* every slot the emission reads has been written
AllRecorded ==
    /\ A_field # <<>>
    /\ \A s \in DOMAIN A_field :
          /\ A_field[s] # Unset
          /\ \A k \in DOMAIN solution : \A p \in DOMAIN solution[k] :
                solution[k][p][s][0] # Unset

\* main has computed the emission
EmissionComputed == pc \in {"save", "done"}

(***************************************************************************)
(* C26: the time axis and the vector-potential history are written only    *)
(* while the first path is propagated, every later step of the run leaves  *)
(* both unchanged, and the emission shifts the k-points of every path by   *)
(* that one history.                                                       *)
(***************************************************************************)
C26_FirstPathHistory ==
    /\ [][Nk2_idx >= 1 => UNCHANGED <<t, A_field>>]_vars
    /\ []((EmissionComputed /\ AllRecorded) =>
             \A s \in 0 .. NtOut - 1 :
                 /\ I_exact_E_dir[s] = SumOverPaths(E_dir, size(paths), s)
                 /\ I_exact_ortho[s] = SumOverPaths(E_ort, size(paths), s))

\* a velocity-gauge emission after a first path whose last sample was taken
\* at a failed step and a second path that went through: the recorded
\* vector potential is not the one the second path ended with, and it
\* moves the k-points of the second path
C26_Witness ==
    /\ EmissionComputed /\ AllRecorded /\ gauge = "velocity" /\ NtOut >= 2
    /\ A_field[NtOut - 1] # R(0)
    /\ A_field[NtOut - 1] # SequentialState(1, (NtOut - 1) * main_dt_out + 1)[ASlot]
    /\ \A k \in 0 .. Nk1 - 1 :
          solution[k][1][NtOut - 1][1] =
              SequentialState(1, (NtOut - 1) * main_dt_out + 1)[4 * k + 1]
    /\ EmissionPoint(1, 0, NtOut - 1) # paths[1][0]

(***************************************************************************)
(* Populations.                                                            *)
(***************************************************************************)
\* f_v(k) + f_c(k) of a state vector
Population(y, k) == CAdd(Comp(y, k, 0), Comp(y, k, 3))

\* the state of the integrator with one entry replaced
Perturbed(j, v) == [solver_y EXCEPT ![j] = v]

\* the right-hand side at the present time and path for the state y
RhsAt(y) ==
    f(solver_t, y, kpath, dk, ecv_in_path, dipole_in_path, A_in_path, y0, R(0))

(***************************************************************************)
(* C27: in velocity gauge the right-hand side satisfies, at every k and    *)
(* for every state, d f_v/dt + d f_c/dt = -gamma1 ((f_v - f_v0) +          *)
(* (f_c - f_c0)); from the initial condition f_v(k) + f_c(k) keeps its     *)
(* initial value at every k, in the integrator state and in every sample.  *)
(***************************************************************************)
C27_VelocityKeepsPopulation ==
    /\ (InLoop /\ gauge = "velocity") =>
          /\ \A k \in 0 .. Nk1 - 1 : Population(solver_y, k) = Population(y0, k)
          /\ \A j \in DOMAIN solver_y : \A v \in Perturbations : \A k \in 0 .. Nk1 - 1 :
                Population(RhsAt(Perturbed(j, v)), k) =
                    CNeg(CMul(gamma1, CSub(Population(Perturbed(j, v), k),
                                           Population(y0, k))))
    /\ gauge = "velocity" =>
          \A k \in DOMAIN solution : \A p \in DOMAIN solution[k] :
              \A s \in DOMAIN solution[k][p] :
                  solution[k][p][s][0] # Unset =>
                      CAdd(solution[k][p][s][0], solution[k][p][s][3]) =
                          Population(InitialState(p), k)

\* the second path after two steps in velocity gauge: both populations of
\* a k-point have moved and their last derivatives are not zero
C27_Witness ==
    /\ InLoop /\ gauge = "velocity" /\ Nk2_idx = 1 /\ ti >= 2 /\ solver_ok
    /\ \E k \in 0 .. Nk1 - 1 :
          /\ Comp(solver_y, k, 0) # Comp(y0, k, 0)
          /\ Comp(solver_y, k, 3) # Comp(y0, k, 3)
          /\ Comp(x, k, 0) # R(0)
          /\ \E s \in DOMAIN solution[k][1] :
                solution[k][1][s][0] \notin {Unset, Comp(y0, k, 0)}

\* the sum of f_v(k) + f_c(k) over the k-points 0 .. n-1 of a state vector
RECURSIVE PathPopulation(_, _)
PathPopulation(y, n) ==
    IF n = 0 THEN R(0) ELSE CAdd(Population(y, n - 1), PathPopulation(y, n - 1))

\* D*(y[m] - y[n]) of component c at k-point k, as flength forms it
GradientTerm(y, k, c) ==
    CMul(DNow, CSub(y[flength_m(k, Nk1) + c], y[flength_n(k, Nk1) + c]))

\* the sum of the gradient terms of component c over the k-points 0 .. n-1
RECURSIVE GradientSum(_, _, _)
GradientSum(y, c, n) ==
    IF n = 0 THEN R(0) ELSE CAdd(GradientTerm(y, n - 1, c), GradientSum(y, c, n - 1))

\* the path population of the samples recorded for path p at index s
SamplePopulation(p, s) ==
    PathPopulation([j \in 0 .. 4 * Nk1 - 1 |-> solution[j \div 4][p][s][j % 4]], Nk1)

(***************************************************************************)
(* C28: in length gauge, on a path of two or more points and for every     *)
(* state, the gradient terms D*(y[m] - y[n]) of each component sum to zero *)
(* over the path, so the time derivative of sum_k (f_v(k) + f_c(k)) is     *)
(* -gamma1 times its distance from the initial value, and from the         *)
(* initial condition the path population stays what it was.                *)
(***************************************************************************)
C28_LengthKeepsPathPopulation ==
    /\ (InLoop /\ gauge = "length") =>
          /\ Nk1 >= 2
          /\ PathPopulation(solver_y, Nk1) = PathPopulation(y0, Nk1)
          /\ \A j \in DOMAIN solver_y : \A v \in Perturbations :
                /\ \A c \in {0, 1, 3} : GradientSum(Perturbed(j, v), c, Nk1) = R(0)
                /\ PathPopulation(RhsAt(Perturbed(j, v)), Nk1) =
                      CNeg(CMul(gamma1, CSub(PathPopulation(Perturbed(j, v), Nk1),
                                             PathPopulation(y0, Nk1))))
    /\ gauge = "length" =>
          \A p \in DOMAIN paths : \A s \in 0 .. NtOut - 1 :
              (solution # <<>> /\ solution[0][p][s][0] # Unset) =>
                  SamplePopulation(p, s) = PathPopulation(InitialState(p), Nk1)

\* the second path of three points after two steps in length gauge with a
\* field: populations of single k-points have moved, gradient terms are
\* not zero, and the path population is the initial one
C28_Witness ==
    /\ InLoop /\ gauge = "length" /\ Nk1 = 3 /\ Nk2_idx = 1 /\ ti >= 2 /\ solver_ok
    /\ DNow # R(0)
    /\ \E k \in 0 .. Nk1 - 1 :
          /\ Population(solver_y, k) # Population(y0, k)
          /\ GradientTerm(solver_y, k, 0) # R(0)
          /\ GradientTerm(solver_y, k, 3) # R(0)

(***************************************************************************)
(* C29: with dipole_off in velocity gauge, for any field, the              *)
(* density-matrix part of the initial state is a fixed point: populations  *)
(* and coherences at every k keep their initial values in the integrator   *)
(* state and in every sample, their derivatives are zero, and only the     *)
(* vector-potential component changes, at the rate -E(t).                  *)
(***************************************************************************)
C29_DipoleOffFixedPoint ==
    (gauge = "velocity" /\ dipole_off) =>
        /\ InLoop =>
              /\ \A j \in 0 .. ASlot - 1 : solver_y[j] = InitialState(Nk2_idx)[j]
              /\ ti > 0 =>
                    /\ \A j \in 0 .. ASlot - 1 : x[j] = R(0)
                    /\ x[ASlot] = CNeg(electric_field(LastEvalTime))
        /\ \A k \in DOMAIN solution : \A p \in DOMAIN solution[k] :
              \A s \in DOMAIN solution[k][p] : \A c \in 0 .. 3 :
                  \/ solution[k][p][s][c] = Unset
                  \/ solution[k][p][s][c] = InitialState(p)[4 * k + c]

\* the second path after two steps with dipoles off in velocity gauge and a
\* field of amplitude 2: the vector potential has moved, it is still
\* moving, and the conduction occupations of the path are not all the same
C29_Witness ==
    /\ gauge = "velocity" /\ dipole_off /\ E0 = R(2)
    /\ InLoop /\ Nk2_idx = 1 /\ ti >= 2 /\ solver_ok
    /\ solver_y[ASlot] # R(0)
    /\ x[ASlot] # R(0)
    /\ Comp(solver_y, 0, 3) # Comp(solver_y, 1, 3)
    /\ \E s \in DOMAIN A_field : A_field[s] \notin {Unset, R(0)}

(***************************************************************************)
(* C30                                                                     *)
(***************************************************************************)
\* the mesh generator has returned: Setup is past the call of lines 88 / 99
MeshReturned == pc # "setup" /\ fault # "ZeroDivisionError"

\* the point a1*b1 + a2*b2 of align 'M' before is_in_hex is asked
hex_M_raw(k, p) == hex_kpoint("M", hex_alpha1(Nk1, "M", k), hex_alpha2(Nk2, "M", p))

\* a k-point without rounding error
NoError == <<0, 0>>

\* C30: for both zone types and both alignments the mesh generator returns
\* exactly Nk2 paths of exactly Nk1 k-points (2 paths for '2line'); the
\* solution array has the shape (Nk1, Nk2, Nt, 4); and while a path is
\* propagated its state vector and its initial state have 4*Nk1 + 1 entries
\* and its path index is below Nk2, so that solver.y[0:-1] reshapes to
\* (Nk1, 4) and is stored at a valid index.
C30_MeshShapes ==
    /\ MeshReturned =>
          /\ DOMAIN paths = 0 .. Nk2 - 1
          /\ \A p \in DOMAIN paths :
                /\ DOMAIN paths[p] = 0 .. Nk1 - 1
                /\ \A k \in DOMAIN paths[p] : DOMAIN paths[p][k] = 1 .. 2
          /\ BZ_type = "2line" => size(paths) = 2
          /\ DOMAIN solution = 0 .. Nk1 - 1
          /\ \A k \in DOMAIN solution :
                /\ DOMAIN solution[k] = 0 .. Nk2 - 1
                /\ \A p \in DOMAIN solution[k] :
                      /\ DOMAIN solution[k][p] = 0 .. NtOut - 1
                      /\ \A s \in DOMAIN solution[k][p] :
                            DOMAIN solution[k][p][s] = 0 .. 3
    /\ InLoop =>
          /\ size(kpath) = Nk1
          /\ size(y0) = 4 * Nk1 + 1
          /\ DOMAIN solver_y = 0 .. 4 * Nk1
          /\ Nk2_idx \in 0 .. Nk2 - 1
          /\ size(solver_y) - 1 = 4 * size(solution)

\* the last of four paths of three points of align 'M' is being propagated
\* and has stored a sample, in a mesh with a point that was reflected into
\* the hexagon
C30_Witness ==
    /\ InLoop
    /\ BZ_type = "full" /\ align = "M" /\ Nk1 = 3 /\ Nk2 = 4
    /\ Nk2_idx = 3 /\ t_idx >= 1
    /\ \A err \in HexErrors : ~is_in_hex(hex_M_raw(2, 0), err)
    /\ paths[0][2] = hex_reflect_into(hex_M_raw(2, 0), NoError)
    /\ solution[2][3][0] = [c \in 0 .. 3 |-> solver_y[8 + c]]
====
